---- MODULE Spec2Model ----
\* EPG ingestion, caching, channel correlation of the IPTV player:
\*   apps/iptv/src/hooks/useEpg.ts      (load orchestration, staleness, matcher)
\*   apps/iptv/src/utils/epgParser.ts   (fetch fallback, cache store, XMLTV parser)
\*   apps/iptv/src/utils/catchupUtils.ts (catchup window and URL)
\* Strings are sequences of one-character strings, instants are integers.
EXTENDS Integers, Sequences, FiniteSets, TLC

VARIABLES
    \* ---- channel matcher (useEpg.ts getChannelPrograms) ----
    mData,        \* the hook's epgData: Null or an EpgData record
    mQuery,       \* the channelId argument
    mResult,      \* the returned EpgProgram[]
    mCalled,      \* TRUE once getChannelPrograms has returned for (mData, mQuery)
    \* ---- one run of the fetchQuery queryFn (useEpg.ts 197-248) ----
    fBase,        \* epgUrl, the configured source URL
    fPc,          \* "idle" | "fetching" (a fetch() is awaited) | "done"
    fI,           \* index i of the candidate being attempted (1-based)
    fJ,           \* inside fetchWithCorsProxy: 0 direct fetch, 1..3 proxy; -1 outside
    fLog,         \* the network requests issued so far, with their responses
    fOutcome,     \* "pending" while running; "data" or "error" when the queryFn settled
    \* ---- the parsed-EPG cache used on its own (epgParser.ts 60-138) ----
    cStore,       \* epgStore: set of [key, value] entries, keys distinct
    cUrl,         \* the url argument of the calls
    cData,        \* the EpgData handed to saveParsedEpgCache
    cOps,         \* the calls made so far: "save", "load", "clear" with the store's answer
    cLoaded,      \* what the last loadParsedEpgCache returned
    \* ---- the useEpg hook with its loads (useEpg.ts 58-301) ----
    settings,         \* AppSettings: [epgUrl, epgRefreshInterval]
    epgStore,         \* the IndexedDB store: set of [key, value] entries
    queryData,        \* query cache: data of the query [EPG_KEY, url], per url
    inflight,         \* per url: the load whose fetchQuery is the query's running fetch, or 0
    epgLoadingState,  \* 'idle' | 'loading' | 'parsing' | 'complete' | 'error'
    epgLoadedAt,      \* Date (ms) or NoTime for null
    now,              \* the clock, ms
    loads,            \* the loadEpgWithProgress calls made so far, in call order
    writes,           \* epgStore.setItem calls started by saveParsedEpgCache, not yet settled
    observer,         \* the useQuery observer: answer of its last cache read, error flag
    lastCheck,        \* the last evaluation of checkAndRefresh, or NoCheck
    \* ---- catchup resolver (catchupUtils.ts) ----
    kChannel,     \* the Channel argument: [url, timeshift, catchup]
    kNow,         \* new Date() at the call, ms
    kTarget,      \* the targetTime argument, ms
    kInfo,        \* the CatchupInfo getCatchupInfo returned, or NoInfo
    kUrl,         \* what generateCatchupUrl returned, or NoResult
    kWithin,      \* what isTimeWithinCatchup returned: "none" | "true" | "false"
    \* ---- XMLTV parser (epgParser.ts 231-429) ----
    pDoc,         \* the parsed XML document: its channel and programme elements
    pNow,         \* new Date() during the parse, seconds
    pMonth,       \* new Date().getMonth() during the parse
    pResult,      \* the EpgData parseXmltvData returned, or NoResult
    pLoaded,      \* what loadParsedEpgCache returned after a save of pResult, or NoResult
    \* ---- one fetched payload in fetchAndParseEpg (epgParser.ts 168-189) ----
    dUrl,         \* the url argument
    dOriginalUrl, \* the originalUrl argument, absent when not passed
    dPayload,     \* the body of the response: [wire, text]
    dPc,          \* "ungzip" | "parse" | "fallback" | "save" | "done"
    dCalls,       \* the calls of parseXmltvData so far: the text each was given
    dOutcome,     \* "pending" | "data" | "error"
    dSavedKey,    \* the key saveParsedEpgCache was called with, as a set
    \* ---- the Settings component (Settings.tsx 198-372) ----
    rSettings,    \* the component's settings state: its epgUrl
    rStored,      \* localStorage 'iptv-settings': the epgUrl persisted
    rPlaylist,    \* TRUE when localStorage holds 'iptv-playlist'
    rStore,       \* epgStore: set of [key, value] entries
    rBefore,      \* the URLs that had a cache entry when the last reset began
    rReset,       \* the last reset: "none" | "cancelled" | "error" (its alert)
    \* ---- the useEpgState hook (useEpgState.ts 39-102) ----
    sLoading,     \* loadingState of the last render
    sError,       \* error of the last render: [has, value], has = FALSE for null
    sNextLoading, \* loadingState with the queued updates applied
    sNextError,   \* error with the queued updates applied
    sBatch,       \* the calls made since the last render, through its callbacks
    sDone,        \* the calls the last render applied
    sPrev,        \* the state of the render before the last: [loading, error]
    \* ---- one call of processInChunks (epgParser.ts 197-229) ----
    qLength,      \* items.length
    qChunkSize,   \* chunkSize
    qIndex,       \* index: the first item not yet processed
    qCalls,       \* the index arguments of the processItem calls so far
    qChunks,      \* the number of items each run of processChunk processed
    qProgress,    \* the onProgress reports so far: processed counts
    qPc           \* "called" | "timer" (a setTimeout is pending) | "resolved"

matchVars == <<mData, mQuery, mResult, mCalled>>
fetchVars == <<fBase, fPc, fI, fJ, fLog, fOutcome>>
cacheVars == <<cStore, cUrl, cData, cOps, cLoaded>>
hookVars == <<settings, epgStore, queryData, inflight, epgLoadingState, epgLoadedAt,
              now, loads, writes, observer, lastCheck>>

catchupVars == <<kChannel, kNow, kTarget, kInfo, kUrl, kWithin>>
parseVars == <<pDoc, pNow, pMonth, pResult, pLoaded>>

decodeVars == <<dUrl, dOriginalUrl, dPayload, dPc, dCalls, dOutcome, dSavedKey>>

resetVars == <<rSettings, rStored, rPlaylist, rStore, rBefore, rReset>>

stateVars == <<sLoading, sError, sNextLoading, sNextError, sBatch, sDone, sPrev>>

chunkVars == <<qLength, qChunkSize, qIndex, qCalls, qChunks, qProgress, qPc>>

auxVars == <<decodeVars, resetVars, stateVars, chunkVars>>

\* The variables of the specifications of the hook, the cache, the matcher,
\* the catchup resolver and the parser.
coreVars == <<matchVars, fetchVars, cacheVars, hookVars, catchupVars, parseVars>>

vars == <<matchVars, fetchVars, cacheVars, hookVars, catchupVars, parseVars, auxVars>>

\* JavaScript null / undefined, comparable with records.
Null == [null |-> TRUE]

\* ------------------------------------------------------------------
\* Strings
\* ------------------------------------------------------------------

\* String.prototype.toLowerCase on one character of the alphabet used here.
Lower(c) ==
    CASE c = "A" -> "a"
      [] c = "B" -> "b"
      [] c = "C" -> "c"
      [] OTHER   -> c

ToLowerCase(s) == [i \in 1..Len(s) |-> Lower(s[i])]

\* String.prototype.includes: t occurs in s as a contiguous substring.
Includes(s, t) ==
    \E i \in 0..(Len(s) - Len(t)) : SubSeq(s, i + 1, i + Len(t)) = t

MinOf(S) == CHOOSE x \in S : \A y \in S : x <= y

\* ------------------------------------------------------------------
\* Channel matcher
\* ------------------------------------------------------------------

\* Bound: number of EPG channels in a dataset of the matcher specification.
MaxChannels == 2

ChannelIds == { <<"A">>, <<"a">>, <<"a", "b">>, <<"A", "b">>, <<"b">> }
DisplayNames == { <<"C">>, <<"a">>, <<"b", "c">> }
Queries == { <<>>, <<"A">>, <<"a">>, <<"a", "b">>, <<"A", "B">>, <<"c">>, <<"b">>,
             <<"c", "c">> }

\* An EpgProgram of the matcher datasets: one programme per channel, which
\* carries the id of the channel it was pushed to (epgParser.ts 292-325).
ProgramOf(id) == [id |-> <<id, 0>>, channelId |-> id, start |-> 0, stop |-> 1]

ChannelOf(id, name) ==
    [id |-> id, displayName |-> name, programs |-> <<ProgramOf(id)>>]

\* The channels Map in insertion order: a sequence of channels, ids distinct.
ChannelMaps ==
    UNION { { s \in [1..n -> { ChannelOf(i, d) : i \in ChannelIds, d \in DisplayNames }] :
                \A a, b \in 1..n : a # b => s[a].id # s[b].id } : n \in 0..MaxChannels }

MatchDatasets == { [channels |-> m] : m \in ChannelMaps }

\* Mutant of getChannelPrograms: the partial tier is tried before the
\* case-insensitive tier.
getChannelProgramsPartialFirst(epgData, channelId) ==
    IF epgData = Null THEN <<>>
    ELSE
      LET chs == epgData.channels
          low == ToLowerCase(channelId)
          exact == { i \in DOMAIN chs : chs[i].id = channelId }
          partial == { i \in DOMAIN chs :
                         \/ Includes(ToLowerCase(chs[i].id), low)
                         \/ Includes(low, ToLowerCase(chs[i].id)) }
          byName == { i \in DOMAIN chs : ToLowerCase(chs[i].displayName) = low }
      IN  IF exact # {} THEN chs[MinOf(exact)].programs
          ELSE IF partial # {} THEN chs[MinOf(partial)].programs
          ELSE IF byName # {} THEN chs[MinOf(byName)].programs
          ELSE <<>>

\* useEpg.ts getChannelPrograms: four passes over the Map in insertion order,
\* the first pass with a hit returns that channel's programs.
getChannelPrograms(epgData, channelId) ==
    IF epgData = Null THEN <<>>
    ELSE
      LET chs == epgData.channels
          low == ToLowerCase(channelId)
          exact == { i \in DOMAIN chs : chs[i].id = channelId }
          caseIns == { i \in DOMAIN chs : ToLowerCase(chs[i].id) = low }
          partial == { i \in DOMAIN chs :
                         \/ Includes(ToLowerCase(chs[i].id), low)
                         \/ Includes(low, ToLowerCase(chs[i].id)) }
          byName == { i \in DOMAIN chs : ToLowerCase(chs[i].displayName) = low }
      IN  IF exact # {} THEN chs[MinOf(exact)].programs
          ELSE IF caseIns # {} THEN chs[MinOf(caseIns)].programs
          ELSE IF partial # {} THEN chs[MinOf(partial)].programs
          ELSE IF byName # {} THEN chs[MinOf(byName)].programs
          ELSE <<>>

\* The variables of the matcher, at rest.
NoInfo == [none |-> TRUE]

NoResult == [none |-> TRUE]

CatchupIdle ==
    /\ kChannel = [url |-> <<>>, timeshift |-> 0, catchup |-> ""]
    /\ kNow = 0
    /\ kTarget = 0
    /\ kInfo = NoInfo
    /\ kUrl = NoResult
    /\ kWithin = "none"

ParseIdle ==
    /\ pDoc = [channels |-> <<>>, programmes |-> <<>>]
    /\ pNow = 0
    /\ pMonth = 0
    /\ pResult = NoResult
    /\ pLoaded = NoResult

\* Nothing is called on the catchup resolver or the parser.
UtilIdle == CatchupIdle /\ ParseIdle

\* No payload is being decoded.
DecodeIdle ==
    /\ dUrl = <<>>
    /\ dOriginalUrl = [has |-> FALSE, value |-> <<>>]
    /\ dPayload = [wire |-> "plain", text |-> "xmltv"]
    /\ dPc = "ungzip"
    /\ dCalls = <<>>
    /\ dOutcome = "pending"
    /\ dSavedKey = {}

\* The Settings component is not mounted.
ResetIdle ==
    /\ rSettings = <<>>
    /\ rStored = <<>>
    /\ rPlaylist = FALSE
    /\ rStore = {}
    /\ rBefore = {}
    /\ rReset = "none"

\* error = null.
NoError == [has |-> FALSE, value |-> ""]

\* useEpgState.ts 40-41: the state of the first render, nothing called.
StateIdle ==
    /\ sLoading = "idle"
    /\ sError = NoError
    /\ sNextLoading = "idle"
    /\ sNextError = NoError
    /\ sBatch = <<>>
    /\ sDone = <<>>
    /\ sPrev = [loading |-> "idle", error |-> NoError]

\* processInChunks is not running.
ChunkIdle ==
    /\ qLength = 0
    /\ qChunkSize = 1
    /\ qIndex = 0
    /\ qCalls = <<>>
    /\ qChunks = <<>>
    /\ qProgress = <<>>
    /\ qPc = "called"

AuxIdle == DecodeIdle /\ ResetIdle /\ StateIdle /\ ChunkIdle

MatchIdle ==
    /\ mData = Null
    /\ mQuery = <<>>
    /\ mResult = <<>>
    /\ mCalled = FALSE

\* The variables of the stand-alone cache, at rest.
CacheIdle ==
    /\ cStore = {}
    /\ cUrl = <<>>
    /\ cData = Null
    /\ cOps = <<>>
    /\ cLoaded = Null

NoTime == -1

NoCheck == [none |-> TRUE]

\* The variables of the hook, at rest.
HookIdle ==
    /\ settings = [epgUrl |-> <<>>, epgRefreshInterval |-> 6]
    /\ epgStore = {}
    /\ queryData = <<>>
    /\ inflight = <<>>
    /\ epgLoadingState = "idle"
    /\ epgLoadedAt = NoTime
    /\ now = 0
    /\ loads = <<>>
    /\ writes = {}
    /\ observer = [lastRead |-> "none", error |-> FALSE]
    /\ lastCheck = NoCheck

\* The variables of the fetch run, at rest.
FetchIdle ==
    /\ fBase = <<>>
    /\ fPc = "idle"
    /\ fI = 0
    /\ fJ = -1
    /\ fLog = <<>>
    /\ fOutcome = "pending"

MatchInit ==
    /\ FetchIdle
    /\ CacheIdle
    /\ HookIdle
    /\ UtilIdle
    /\ AuxIdle
    /\ mData \in {Null} \cup MatchDatasets
    /\ mQuery \in Queries
    /\ mResult = <<>>
    /\ mCalled = FALSE

\* A component calls getChannelPrograms(channelId) on the loaded data.
GetChannelPrograms ==
    /\ ~mCalled
    /\ mResult' = getChannelPrograms(mData, mQuery)
    /\ mCalled' = TRUE
    /\ UNCHANGED <<mData, mQuery, fetchVars, cacheVars, hookVars, catchupVars, parseVars, auxVars>>

\* The component is re-rendered for another playlist channel.
SelectChannel ==
    /\ mCalled
    /\ \E q \in Queries \ {mQuery} :
         /\ mQuery' = q
         /\ mResult' = <<>>
         /\ mCalled' = FALSE
    /\ UNCHANGED <<mData, fetchVars, cacheVars, hookVars, catchupVars, parseVars, auxVars>>

MatchNext == GetChannelPrograms \/ SelectChannel

SpecMatch == MatchInit /\ [][MatchNext]_vars

\* ---- the tiers as the specification of the matcher states them ----
TierExact(ch, q) == ch.id = q
TierCaseInsensitive(ch, q) == ToLowerCase(ch.id) = ToLowerCase(q)
TierSubstring(ch, q) ==
    \/ Includes(ToLowerCase(ch.id), ToLowerCase(q))
    \/ Includes(ToLowerCase(q), ToLowerCase(ch.id))
TierDisplayName(ch, q) == ToLowerCase(ch.displayName) = ToLowerCase(q)

TierHits(t, data, q) ==
    { i \in DOMAIN data.channels :
        CASE t = 1 -> TierExact(data.channels[i], q)
          [] t = 2 -> TierCaseInsensitive(data.channels[i], q)
          [] t = 3 -> TierSubstring(data.channels[i], q)
          [] OTHER -> TierDisplayName(data.channels[i], q) }

Tiers == {1, 2, 3, 4}

\* C9: the result is the programs of a channel found by the first tier that
\* has any hit (exact id, case-insensitive id, substring either way,
\* displayName); a channel that matches only at a later tier is never returned.
C9_TierPrecedence ==
    (mCalled /\ mData # Null) =>
        \A t \in Tiers :
            ( /\ TierHits(t, mData, mQuery) # {}
              /\ \A u \in Tiers : u < t => TierHits(u, mData, mQuery) = {} )
            => \E i \in TierHits(t, mData, mQuery) :
                  mResult = mData.channels[i].programs

\* C9 witness: the case-insensitive tier decides although a channel placed
\* earlier in the Map matches at the substring tier.
C9_Witness ==
    /\ mCalled
    /\ mData # Null
    /\ TierHits(1, mData, mQuery) = {}
    /\ TierHits(2, mData, mQuery) # {}
    /\ \E i \in TierHits(3, mData, mQuery) :
          /\ i \notin TierHits(2, mData, mQuery)
          /\ i < MinOf(TierHits(2, mData, mQuery))
    /\ mResult = mData.channels[MinOf(TierHits(2, mData, mQuery))].programs

\* C10 (as claimed): no data, an empty query, or a query that is no channel's
\* id or displayName (in any letter case) gives the empty program list.
C10_MissIsEmpty ==
    mCalled =>
        ( ( \/ mData = Null
            \/ mQuery = <<>>
            \/ \A t \in Tiers : TierHits(t, mData, mQuery) = {} )
          => mResult = <<>> )

\* ------------------------------------------------------------------
\* Fetch orchestration: generateEpgUrls, fetchAndParseEpg, fetchWithCorsProxy
\* ------------------------------------------------------------------
\* A URL is a sequence of tokens (scheme, host words, path words).

\* encodeURIComponent on one token: ":" and "/" are escaped, letters are kept.
EncodeToken(t) ==
    CASE t = "http://"    -> "http%3A%2F%2F"
      [] t = "https://"   -> "https%3A%2F%2F"
      [] t = "/guide.xml" -> "%2Fguide.xml"
      [] OTHER            -> t

encodeURIComponent(url) == [k \in 1..Len(url) |-> EncodeToken(url[k])]

\* String.prototype.includes(word) on one token.
TokenIncludes(t, word) ==
    \/ t = word
    \/ /\ word = "proxy"
       /\ t \in {"corsproxy.io", "thingproxy.freeboard.io", "myproxy.host"}

UrlIncludes(url, word) == \E k \in 1..Len(url) : TokenIncludes(url[k], word)

\* String.prototype.startsWith('http://').
StartsWithHttp(url) == Len(url) > 0 /\ url[1] = "http://"

\* The three proxy prefixes, the same list in useEpg.ts 49-51 and
\* epgParser.ts 14-18.
corsProxies ==
    << <<"https://", "corsproxy.io", "/?">>,
       <<"https://", "api.", "codetabs.com", "/v1/", "proxy", "?quest=">>,
       <<"https://", "thingproxy.freeboard.io", "/fetch/">> >>

Proxied(j, url) == corsProxies[j] \o encodeURIComponent(url)

BaseUrls ==
    { <<"http://", "epg.host", "/guide.xml">>,
      <<"https://", "epg.host", "/guide.xml">>,
      <<"http://", "myproxy.host", "/guide.xml">> }

\* useEpg.ts generateEpgUrls.
generateEpgUrls(baseUrl) ==
    IF baseUrl = <<>> THEN <<>>
    ELSE IF StartsWithHttp(baseUrl)
         THEN <<baseUrl, Proxied(1, baseUrl), Proxied(2, baseUrl), Proxied(3, baseUrl)>>
         ELSE <<baseUrl>>

\* Mutant of AlreadyProxied: only the first proxy host is recognised.
AlreadyProxiedFirstOnly(url) == UrlIncludes(url, "corsproxy.io")

\* epgParser.ts 147-152: the URL is taken to be a proxy address already.
AlreadyProxied(url) ==
    \/ UrlIncludes(url, "corsproxy.io")
    \/ UrlIncludes(url, "codetabs.com")
    \/ UrlIncludes(url, "thingproxy.freeboard.io")
    \/ UrlIncludes(url, "proxy")

\* What one fetch() can answer: a transport error (fetch rejects), a
\* non-success status, or a success status with a body that is gzip of
\* XMLTV, plain XMLTV, or not parseable as XML.
Responses == {"neterr", "status", "ok-gzip", "ok-xml", "ok-garbage"}

ResponseOk(r) == r \in {"ok-gzip", "ok-xml", "ok-garbage"}

\* epgParser.ts 173-182: ungzip then parse, on any throw decode as UTF-8 and
\* parse; TRUE when an EpgData comes out.
DecodeAndParse(r) == r \in {"ok-gzip", "ok-xml"}

\* The first request of the attempt on candidate url: fetchAndParseEpg either
\* fetches it directly (fJ = -1) or enters fetchWithCorsProxy (fJ = 0).
FirstJ(url) == IF AlreadyProxied(url) THEN -1 ELSE 0

Pending == "pending"

Request(url) == [url |-> url, response |-> Pending]

FetchInit ==
    /\ MatchIdle
    /\ CacheIdle
    /\ HookIdle
    /\ UtilIdle
    /\ AuxIdle
    /\ fBase \in BaseUrls
    /\ fPc = "idle"
    /\ fI = 0
    /\ fJ = -1
    /\ fLog = <<>>
    /\ fOutcome = "pending"

\* queryFn starts: the candidate list is built and fetchAndParseEpg(epgUrls[0])
\* issues its first request.
StartFetch ==
    /\ fPc = "idle"
    /\ LET urls == generateEpgUrls(fBase)
       IN  /\ fI' = 1
           /\ fJ' = FirstJ(urls[1])
           /\ fLog' = <<Request(urls[1])>>
    /\ fPc' = "fetching"
    /\ UNCHANGED <<fBase, fOutcome>>

\* The attempt on candidate fI failed (fetchAndParseEpg threw): the loop goes
\* to the next candidate, or throws after the last one.
CandidateFailed(log) ==
    LET urls == generateEpgUrls(fBase)
    IN  IF fI = Len(urls)
        THEN /\ fPc' = "done"
             /\ fOutcome' = "error"
             /\ fLog' = log
             /\ UNCHANGED <<fI, fJ>>
        ELSE /\ fI' = fI + 1
             /\ fJ' = FirstJ(urls[fI + 1])
             /\ fLog' = Append(log, Request(urls[fI + 1]))
             /\ UNCHANGED <<fPc, fOutcome>>

\* The awaited fetch() settles with response r; the code runs on to its next
\* await or to the end of the queryFn.
Respond(r) ==
    /\ fPc = "fetching"
    /\ LET n == Len(fLog)
           log == [fLog EXCEPT ![n].response = r]
           cand == generateEpgUrls(fBase)[fI]
       IN  IF ResponseOk(r)
           THEN IF DecodeAndParse(r)
                THEN /\ fPc' = "done"
                     /\ fOutcome' = "data"
                     /\ fLog' = log
                     /\ UNCHANGED <<fI, fJ>>
                ELSE CandidateFailed(log)
           ELSE IF fJ \in 0..2
                THEN \* fetchWithCorsProxy: next proxy in corsProxies
                     /\ fJ' = fJ + 1
                     /\ fLog' = Append(log, Request(Proxied(fJ + 1, cand)))
                     /\ UNCHANGED <<fPc, fI, fOutcome>>
                ELSE CandidateFailed(log)
    /\ UNCHANGED fBase

FetchNext ==
    \/ /\ StartFetch
       /\ UNCHANGED <<matchVars, cacheVars, hookVars, catchupVars, parseVars, auxVars>>
    \/ /\ \E r \in Responses : Respond(r)
       /\ UNCHANGED <<matchVars, cacheVars, hookVars, catchupVars, parseVars, auxVars>>

SpecFetch == FetchInit /\ [][FetchNext]_vars

\* C1 (as claimed): when the load returns data from candidate k, exactly the
\* first k candidates were requested, once each and in list order; when it
\* fails, each of the n candidates was requested once.
C1_OneRequestPerCandidate ==
    fPc = "done" =>
        LET urls == generateEpgUrls(fBase)
            k == IF fOutcome = "data" THEN fI ELSE Len(urls)
        IN  /\ Len(fLog) = k
            /\ \A m \in 1..k : fLog[m].url = urls[m]

\* ------------------------------------------------------------------
\* Cache store: saveParsedEpgCache, loadParsedEpgCache, clearParsedEpgCache
\* ------------------------------------------------------------------
\* Instants are milliseconds since the epoch.

\* A host name with a character above U+00FF (an internationalised name).
NonLatin1Token == "U+0433.host"

\* btoa throws InvalidCharacterError on a character outside Latin-1;
\* otherwise it is an injective encoding of its argument.
BtoaThrows(url) == \E k \in 1..Len(url) : url[k] = NonLatin1Token

btoa(url) == <<"base64">> \o url

\* `iptv-epg-parsed-${btoa(url)}`
CacheKey(url) == <<"iptv-epg-parsed-">> \o btoa(url)

\* Date.prototype.toISOString: seconds and milliseconds are separate fields
\* of the text; new Date(text) reads them back.
toISOString(t) == [sec |-> t \div 1000, ms |-> t % 1000]

DateFromISO(iso) == iso.sec * 1000 + iso.ms

\* new Date(x) of a stored Date (structured clone keeps a Date a Date).
DateFromDate(t) == t

\* Array.from(map.entries()): [id, channel] pairs in insertion order.
MapEntries(channels) == [k \in 1..Len(channels) |-> <<channels[k].id, channels[k]>>]

\* Map.prototype.set on the insertion-ordered Map.
MapSet(channels, id, value) ==
    IF \E k \in 1..Len(channels) : channels[k].id = id
    THEN [k \in 1..Len(channels) |->
            IF channels[k].id = id THEN value ELSE channels[k]]
    ELSE Append(channels, value)

\* epgParser.ts 68-78: the value handed to epgStore.setItem.
CacheValue(url, epgData, nowMs) ==
    [ data |-> [ channels |-> MapEntries(epgData.channels),
                 programs |-> epgData.programs,
                 generatedAt |-> toISOString(epgData.generatedAt) ],
      timestamp |-> nowMs,
      url |-> url ]

StoreGet(store, key) ==
    IF \E e \in store : e.key = key
    THEN (CHOOSE e \in store : e.key = key).value
    ELSE Null

StoreSet(store, key, value) ==
    { e \in store : e.key # key } \cup { [key |-> key, value |-> value] }

StoreRemove(store, key) == { e \in store : e.key # key }

\* saveParsedEpgCache: every throw (btoa, setItem) is caught and logged.
saveParsedEpgCache(store, url, epgData, nowMs, writeOk) ==
    IF BtoaThrows(url) \/ ~writeOk
    THEN store
    ELSE StoreSet(store, CacheKey(url), CacheValue(url, epgData, nowMs))

ReviveProgram(p) ==
    [p EXCEPT !.start = DateFromDate(p.start), !.stop = DateFromDate(p.stop)]

RECURSIVE ReviveChannels(_, _)
ReviveChannels(entries, acc) ==
    IF entries = <<>> THEN acc
    ELSE LET e == Head(entries)
             ch == [e[2] EXCEPT !.programs =
                      [k \in 1..Len(e[2].programs) |-> ReviveProgram(e[2].programs[k])]]
         IN  ReviveChannels(Tail(entries), MapSet(acc, e[1], ch))

\* Mutant of loadParsedEpgCache: no try/catch, a throw reaches the caller.
loadParsedEpgCacheNoCatch(store, url, readOk) ==
    IF BtoaThrows(url) \/ ~readOk THEN [thrown |-> TRUE]
    ELSE LET cached == StoreGet(store, CacheKey(url))
         IN  IF cached = Null THEN Null
             ELSE [ data |->
                      [ channels |-> ReviveChannels(cached.data.channels, <<>>),
                        programs |-> [k \in 1..Len(cached.data.programs) |->
                                        ReviveProgram(cached.data.programs[k])],
                        generatedAt |-> DateFromISO(cached.data.generatedAt) ],
                    loadedAt |-> cached.timestamp ]

\* loadParsedEpgCache: Null when the entry is absent or anything throws.
loadParsedEpgCache(store, url, readOk) ==
    IF BtoaThrows(url) \/ ~readOk THEN Null
    ELSE LET cached == StoreGet(store, CacheKey(url))
         IN  IF cached = Null THEN Null
             ELSE [ data |->
                      [ channels |-> ReviveChannels(cached.data.channels, <<>>),
                        programs |-> [k \in 1..Len(cached.data.programs) |->
                                        ReviveProgram(cached.data.programs[k])],
                        generatedAt |-> DateFromISO(cached.data.generatedAt) ],
                    loadedAt |-> cached.timestamp ]

\* clearParsedEpgCache: every throw is caught and logged.
clearParsedEpgCache(store, url, removeOk) ==
    IF BtoaThrows(url) \/ ~removeOk THEN store
    ELSE StoreRemove(store, CacheKey(url))

\* ---- datasets as parseXmltvData builds them ----

\* Bound: number of programme elements of a cached dataset.
MaxCachePrograms == 2

Instants == {0, 1999, 3600000}

CacheChannelIds == { <<"a">>, <<"b">> }

\* Array.prototype.sort by start (stable): insertion of p behind every
\* element that does not start later.
RECURSIVE InsertByStart(_, _)
InsertByStart(list, p) ==
    IF list = <<>> THEN <<p>>
    ELSE IF Head(list).start <= p.start
         THEN <<Head(list)>> \o InsertByStart(Tail(list), p)
         ELSE <<p>> \o list

RECURSIVE SortByStart(_)
SortByStart(list) ==
    IF list = <<>> THEN <<>>
    ELSE InsertByStart(SortByStart(SubSeq(list, 1, Len(list) - 1)), list[Len(list)])

SelectSeq2(list, id) ==
    LET Keep(p) == p.channelId = id IN SelectSeq(list, Keep)

\* A programme as parsed: id `${channelId}-${startStr}-${programIndex}`.
CacheProgram(ch, start, index) ==
    [id |-> <<ch, start, index>>, channelId |-> ch, start |-> start, stop |-> start + 1000]

\* The EpgData parseXmltvData returns for channel elements ids (in document
\* order) and programme elements progs, parsed at generatedAt.
BuildEpgData(ids, progs, generatedAt) ==
    [ channels |-> [k \in 1..Len(ids) |->
                      [ id |-> ids[k], displayName |-> ids[k],
                        programs |-> SortByStart(SelectSeq2(progs, ids[k])) ]],
      programs |-> SortByStart(progs),
      generatedAt |-> generatedAt ]

CacheDatasets ==
    { BuildEpgData(ids, [k \in 1..Len(pc) |-> CacheProgram(pc[k][1], pc[k][2], k - 1)], g) :
        ids \in { <<>>, << <<"a">> >>, << <<"a">>, <<"b">> >>, << <<"b">>, <<"a">> >> },
        pc \in UNION { [1..m -> CacheChannelIds \X Instants] : m \in 0..MaxCachePrograms },
        g \in {1999, 7200001} }

CacheUrls ==
    { <<"http://", "epg.host", "/guide.xml">>,
      <<"https://", "epg.host", "/guide.xml">>,
      <<"http://", NonLatin1Token, "/guide.xml">> }

CacheInit ==
    /\ MatchIdle
    /\ FetchIdle
    /\ HookIdle
    /\ UtilIdle
    /\ AuxIdle
    /\ cStore = {}
    /\ cUrl \in CacheUrls
    /\ cData \in CacheDatasets
    /\ cOps = <<>>
    /\ cLoaded = Null

\* Bound: number of cache calls in one run of the cache specification.
MaxCacheOps == 3

CacheSave(writeOk) ==
    /\ Len(cOps) < MaxCacheOps
    /\ cStore' = saveParsedEpgCache(cStore, cUrl, cData, 5000, writeOk)
    /\ cOps' = Append(cOps, [op |-> "save", ok |-> writeOk])
    /\ UNCHANGED <<cUrl, cData, cLoaded>>

CacheLoad(readOk) ==
    /\ Len(cOps) < MaxCacheOps
    /\ cLoaded' = loadParsedEpgCache(cStore, cUrl, readOk)
    /\ cOps' = Append(cOps, [op |-> "load", ok |-> readOk])
    /\ UNCHANGED <<cStore, cUrl, cData>>

CacheClear(removeOk) ==
    /\ Len(cOps) < MaxCacheOps
    /\ cStore' = clearParsedEpgCache(cStore, cUrl, removeOk)
    /\ cOps' = Append(cOps, [op |-> "clear", ok |-> removeOk])
    /\ UNCHANGED <<cUrl, cData, cLoaded>>

CacheNext ==
    \/ /\ \E ok \in BOOLEAN : CacheSave(ok)
       /\ UNCHANGED <<matchVars, fetchVars, hookVars, catchupVars, parseVars, auxVars>>
    \/ /\ \E ok \in BOOLEAN : CacheLoad(ok)
       /\ UNCHANGED <<matchVars, fetchVars, hookVars, catchupVars, parseVars, auxVars>>
    \/ /\ \E ok \in BOOLEAN : CacheClear(ok)
       /\ UNCHANGED <<matchVars, fetchVars, hookVars, catchupVars, parseVars, auxVars>>

SpecCache == CacheInit /\ [][CacheNext]_vars

\* The last two calls were a save and then a load, and the store itself
\* answered both without an error.
SavedThenLoaded ==
    /\ Len(cOps) >= 2
    /\ cOps[Len(cOps) - 1] = [op |-> "save", ok |-> TRUE]
    /\ cOps[Len(cOps)] = [op |-> "load", ok |-> TRUE]

ChannelIdsOf(data) == [k \in 1..Len(data.channels) |-> data.channels[k].id]

\* C4 (as claimed): for every EpgData and every key, a save followed by a
\* load gives back the same channel ids, the same program order in every
\* channel and in the flat list, and the same start, stop and generatedAt.
C4_RoundTrip ==
    SavedThenLoaded =>
        /\ cLoaded # Null
        /\ ChannelIdsOf(cLoaded.data) = ChannelIdsOf(cData)
        /\ \A k \in 1..Len(cData.channels) :
              cLoaded.data.channels[k].programs = cData.channels[k].programs
        /\ cLoaded.data.programs = cData.programs
        /\ cLoaded.data.generatedAt = cData.generatedAt

\* ------------------------------------------------------------------
\* The useEpg hook: loadEpgWithProgress, checkAndRefresh, the cache query
\* ------------------------------------------------------------------
\* One mounted hook. The query client is used as the code uses it:
\*   invalidateQueries(key)  refetches the query of a mounted observer (its
\*                           queryFn re-reads the cache) and its promise waits
\*                           for a fetch already running on that query;
\*   removeQueries(key)      drops the query with its data and rejects the
\*                           promise of a fetchQuery still running on it;
\*   fetchQuery(key, fn)     runs fn on a new query; its data becomes the
\*                           query's data if the query is still in the cache.

\* Bound: number of loadEpgWithProgress calls in one run.
MaxLoads == 2

\* Bound: number of clock steps in one run.
MaxTicks == 2

HourMs == 3600000

\* useEpg.ts 283: the age, in hours, from which checkAndRefresh reloads.
RefreshHours == 6

\* One clock step: three hours.
TickMs == 3 * HourMs

HookUrls ==
    { <<"http://", "epg.host", "/guide.xml">>,
      <<"https://", "epg.host", "/guide.xml">> }

\* The refresh intervals the hook can find in the stored settings
\* (Settings.tsx offers 1, 3, 6, 12, 24).
Intervals == {3, 6}

Undefined == [undefined |-> TRUE]

IsData(x) == x # Undefined /\ x # Null

\* The EpgData load l parses at time t: one channel, one programme that
\* carries the number of the load.
HookData(l, t) ==
    BuildEpgData(<< <<"a">> >>, <<CacheProgram(<<"a">>, l, 0)>>, t)

\* The hook's epgData: the data of the query [EPG_KEY, settings.epgUrl].
EpgDataOf(st, qd) ==
    IF st.epgUrl = <<>> THEN Null
    ELSE IF IsData(qd[st.epgUrl]) THEN qd[st.epgUrl] ELSE Null

EpgData == EpgDataOf(settings, queryData)

\* isFetching of the observer.
IsFetchingOf(st, infl) == st.epgUrl # <<>> /\ infl[st.epgUrl] # 0

\* useEpg.ts 139-146: the effect that stamps epgLoadedAt when data is shown
\* and no timestamp is set.
Tracked(la, st, qd, infl, t) ==
    IF EpgDataOf(st, qd) # Null /\ ~IsFetchingOf(st, infl) /\ la = NoTime
    THEN t ELSE la

\* A load is in 'loading' or 'parsing': called and its queryFn not settled.
InFlight(ld) == ld.pc \in {"clear", "invalidate", "fetch"}

Thrown == [thrown |-> TRUE]

\* The observer's queryFn (useEpg.ts 112-128) on the cache read's answer c:
\* the query's data, the timestamp it sets, the observer's error state.
CacheQuery(c, la) ==
    IF c = Thrown THEN [data |-> Undefined, la |-> la, error |-> TRUE]
    ELSE IF c = Null THEN [data |-> Null, la |-> la, error |-> FALSE]
    ELSE [data |-> c.data, la |-> c.loadedAt, error |-> FALSE]

ReadAnswer(readOk) == IF readOk THEN "ok" ELSE "threw"

\* The stored refresh interval when nothing was configured (useEpg.ts 28, 35).
DefaultInterval == 6

\* The hook right after mounting, at time t, with refresh interval iv in
\* the stored settings: the store is empty or holds an entry written at 0.
Mounted(ivs, ts) ==
    /\ settings \in [epgUrl : HookUrls, epgRefreshInterval : ivs]
    /\ epgStore \in { {},
                      saveParsedEpgCache({}, settings.epgUrl,
                                         HookData(0, 0), 0, TRUE) }
    /\ queryData = [u \in HookUrls |-> Undefined]
    /\ inflight = [u \in HookUrls |-> 0]
    /\ epgLoadingState = "idle"
    /\ epgLoadedAt = NoTime
    /\ now \in ts
    /\ loads = <<>>
    /\ writes = {}
    /\ observer = [lastRead |-> "none", error |-> FALSE]
    /\ lastCheck = NoCheck

\* The page is opened at once or six hours after the cache was written.
HookInit ==
    /\ MatchIdle
    /\ FetchIdle
    /\ CacheIdle
    /\ UtilIdle
    /\ AuxIdle
    /\ Mounted({DefaultInterval}, {0, RefreshHours * HourMs})

\* The page is opened when the cache was written and stays open.
StaleInit ==
    /\ MatchIdle
    /\ FetchIdle
    /\ CacheIdle
    /\ UtilIdle
    /\ AuxIdle
    /\ Mounted(Intervals, {0})

\* The mounted observer fetches its query: loadParsedEpgCache(settings.epgUrl).
ObserverFetch(readOk) ==
    /\ settings.epgUrl # <<>>
    /\ queryData[settings.epgUrl] = Undefined
    /\ inflight[settings.epgUrl] = 0
    /\ ~observer.error
    /\ LET q == CacheQuery(loadParsedEpgCache(epgStore, settings.epgUrl, readOk),
                           epgLoadedAt)
           qd == [queryData EXCEPT ![settings.epgUrl] = q.data]
       IN  /\ queryData' = qd
           /\ epgLoadedAt' = Tracked(q.la, settings, qd, inflight, now)
           /\ observer' = [lastRead |-> ReadAnswer(readOk), error |-> q.error]
    /\ UNCHANGED <<settings, epgStore, inflight, epgLoadingState, now, loads, writes,
                   lastCheck>>

\* invalidateQueries({queryKey: [EPG_KEY, url]}) after setEpgLoadedAt(null),
\* on store st: the load to wait for (0 for none), the query data and the
\* timestamp afterwards, the observer afterwards.
Invalidate(url, st, readOk) ==
    IF url # settings.epgUrl
    THEN [wait |-> 0, qd |-> queryData, la |-> NoTime, obs |-> observer]
    ELSE IF inflight[url] # 0
    THEN [wait |-> inflight[url], qd |-> queryData, la |-> NoTime, obs |-> observer]
    ELSE LET q == CacheQuery(loadParsedEpgCache(st, url, readOk), NoTime)
         IN  [ wait |-> 0,
               qd |-> [queryData EXCEPT ![url] = q.data],
               la |-> q.la,
               obs |-> [lastRead |-> ReadAnswer(readOk), error |-> q.error] ]

NewLoad(url, force, pc, wait) ==
    [ url |-> url, force |-> force, pc |-> pc, i |-> 0, waitFor |-> wait,
      outer |-> "running", emitted |-> <<"loading">>,
      overlapped |-> \E k \in 1..Len(loads) : loads[k].url = url /\ InFlight(loads[k]),
      saveThrew |-> FALSE ]

\* loadEpgWithProgress(forceFresh, onStateChange, customEpgUrl) up to its
\* first await: clearParsedEpgCache when forced, else invalidateQueries.
Load(custom, force, readOk) ==
    LET url == IF custom # <<>> THEN custom ELSE settings.epgUrl
    IN  /\ url # <<>>
        /\ Len(loads) < MaxLoads
        /\ epgLoadingState' = "loading"
        /\ IF force
           THEN /\ loads' = Append(loads, NewLoad(url, force, "clear", 0))
                /\ epgLoadedAt' = Tracked(epgLoadedAt, settings, queryData, inflight, now)
                /\ UNCHANGED <<queryData, observer>>
           ELSE LET v == Invalidate(url, epgStore, readOk)
                IN  /\ loads' = Append(loads, NewLoad(url, force, "invalidate", v.wait))
                    /\ queryData' = v.qd
                    /\ observer' = v.obs
                    /\ epgLoadedAt' = Tracked(v.la, settings, v.qd, inflight, now)
        /\ UNCHANGED <<settings, epgStore, inflight, now, writes>>

\* A caller (Settings, EpgDebug) invokes loadEpgWithProgress / refreshEpg.
Invoke(custom, force, readOk) ==
    /\ Load(custom, force, readOk)
    /\ UNCHANGED lastCheck

\* ageInHours >= 6
IsStale(t, loadedAt, st) == (t - loadedAt) >= RefreshHours * HourMs

\* useEpg.ts 276-301: checkAndRefresh, run at once by the effect and then
\* by the hourly interval.
CheckAndRefresh(readOk) ==
    /\ settings.epgUrl # <<>>
    /\ EpgData # Null
    /\ epgLoadedAt # NoTime
    /\ IF IsStale(now, epgLoadedAt, settings)
       THEN Load(<<>>, TRUE, readOk)
       ELSE UNCHANGED <<settings, epgStore, queryData, inflight, epgLoadingState,
                        epgLoadedAt, now, loads, writes, observer>>
    /\ lastCheck' = [ at |-> now, loadedAt |-> epgLoadedAt,
                      interval |-> settings.epgRefreshInterval,
                      started |-> IsStale(now, epgLoadedAt, settings) ]

\* The awaited clearParsedEpgCache of load l settles; the code runs on to
\* await invalidateQueries.
AfterClear(l, removeOk, readOk) ==
    /\ loads[l].pc = "clear"
    /\ LET st == clearParsedEpgCache(epgStore, loads[l].url, removeOk)
           v == Invalidate(loads[l].url, st, readOk)
       IN  /\ epgStore' = st
           /\ queryData' = v.qd
           /\ observer' = v.obs
           /\ epgLoadedAt' = Tracked(v.la, settings, v.qd, inflight, now)
           /\ loads' = [loads EXCEPT ![l].pc = "invalidate", ![l].waitFor = v.wait]
    /\ UNCHANGED <<settings, inflight, epgLoadingState, now, writes, lastCheck>>

\* The awaited invalidateQueries of load l settles: removeQueries, then
\* fetchQuery starts the queryFn, which sets 'parsing' and attempts the
\* first candidate. removeQueries rejects the fetchQuery promise of a load
\* still fetching the query; that load's catch (useEpg.ts 254-259) runs in
\* the microtasks that follow, so 'error' is the state that stays, while
\* its queryFn keeps running.
StartQuery(l) ==
    /\ loads[l].pc = "invalidate"
    /\ loads[l].waitFor # 0 =>
          \/ loads[loads[l].waitFor].pc # "fetch"
          \/ loads[loads[l].waitFor].outer # "running"
    /\ LET url == loads[l].url
           old == inflight[url]
           qd == [queryData EXCEPT ![url] = Undefined]
           infl == [inflight EXCEPT ![url] = l]
       IN  /\ queryData' = qd
           /\ inflight' = infl
           /\ loads' = [k \in 1..Len(loads) |->
                 IF k = l
                 THEN [loads[k] EXCEPT !.pc = "fetch", !.i = 1,
                                       !.emitted = Append(@, "parsing")]
                 ELSE IF k = old
                      THEN [loads[k] EXCEPT !.outer = "threw",
                                            !.emitted = Append(@, "error")]
                      ELSE loads[k]]
           /\ epgLoadingState' = IF old # 0 THEN "error" ELSE "parsing"
           /\ epgLoadedAt' = Tracked(epgLoadedAt, settings, qd, infl, now)
    /\ observer' = [observer EXCEPT !.error = FALSE]
    /\ UNCHANGED <<settings, epgStore, now, writes, lastCheck>>

\* fetchAndParseEpg 184-189: the save is started and not awaited; its
\* synchronous part builds the key and the value.
StartedWrites(l, url, data, t) ==
    IF BtoaThrows(url) THEN {}
    ELSE { [load |-> l, url |-> url, value |-> CacheValue(url, data, t)] }

\* The attempt of load l on candidate i (fetchAndParseEpg) settles.
AttemptSettles(l, ok) ==
    /\ loads[l].pc = "fetch"
    /\ LET ld == loads[l]
           url == ld.url
           mine == inflight[url] = l
           infl == IF mine THEN [inflight EXCEPT ![url] = 0] ELSE inflight
       IN  IF ok
           THEN LET data == HookData(l, now)
                    qd == IF mine THEN [queryData EXCEPT ![url] = data] ELSE queryData
                IN  /\ writes' = writes \cup StartedWrites(l, url, data, now)
                    /\ epgLoadedAt' = now
                    /\ epgLoadingState' = "complete"
                    /\ queryData' = qd
                    /\ inflight' = infl
                    /\ loads' = [loads EXCEPT
                          ![l].pc = "returned",
                          ![l].emitted = Append(@, "complete"),
                          ![l].outer = IF @ = "running" THEN "returned" ELSE @]
           ELSE IF ld.i = Len(generateEpgUrls(url))
           THEN /\ inflight' = infl
                /\ epgLoadingState' =
                      IF ld.outer = "running" THEN "error" ELSE epgLoadingState
                /\ loads' = [loads EXCEPT
                      ![l].pc = "threw",
                      ![l].emitted = IF ld.outer = "running" THEN Append(@, "error") ELSE @,
                      ![l].outer = IF @ = "running" THEN "threw" ELSE @]
                /\ epgLoadedAt' = Tracked(epgLoadedAt, settings, queryData, infl, now)
                /\ UNCHANGED <<queryData, writes>>
           ELSE /\ epgLoadingState' = "parsing"
                /\ loads' = [loads EXCEPT ![l].i = @ + 1,
                                          ![l].emitted = Append(@, "parsing")]
                /\ epgLoadedAt' = Tracked(epgLoadedAt, settings, queryData, inflight, now)
                /\ UNCHANGED <<queryData, inflight, writes>>
    /\ UNCHANGED <<settings, epgStore, now, observer, lastCheck>>

\* saveParsedEpgCache 85-87: a failed write is logged, nothing else.
AfterWriteFault(ld) == [ld EXCEPT !.saveThrew = TRUE]

\* An epgStore.setItem started by saveParsedEpgCache settles.
StoreWrite(w, writeOk) ==
    /\ w \in writes
    /\ writes' = writes \ {w}
    /\ IF writeOk
       THEN /\ epgStore' = StoreSet(epgStore, CacheKey(w.url), w.value)
            /\ UNCHANGED loads
       ELSE /\ loads' = [loads EXCEPT ![w.load] = AfterWriteFault(@)]
            /\ UNCHANGED epgStore
    /\ epgLoadedAt' = Tracked(epgLoadedAt, settings, queryData, inflight, now)
    /\ UNCHANGED <<settings, queryData, inflight, epgLoadingState, now, observer,
                   lastCheck>>

Tick ==
    /\ now < MaxTicks * TickMs
    /\ now' = now + TickMs
    /\ epgLoadedAt' = Tracked(epgLoadedAt, settings, queryData, inflight, now + TickMs)
    /\ UNCHANGED <<settings, epgStore, queryData, inflight, epgLoadingState, loads,
                   writes, observer, lastCheck>>

HookNext ==
    \/ /\ \E r \in BOOLEAN : ObserverFetch(r)
       /\ UNCHANGED <<matchVars, fetchVars, cacheVars, catchupVars, parseVars, auxVars>>
    \/ /\ \E f \in BOOLEAN, r \in BOOLEAN : Invoke(<<>>, f, r)
       /\ UNCHANGED <<matchVars, fetchVars, cacheVars, catchupVars, parseVars, auxVars>>
    \/ /\ \E r \in BOOLEAN : CheckAndRefresh(r)
       /\ UNCHANGED <<matchVars, fetchVars, cacheVars, catchupVars, parseVars, auxVars>>
    \/ /\ \E l \in 1..Len(loads), rm \in BOOLEAN, r \in BOOLEAN : AfterClear(l, rm, r)
       /\ UNCHANGED <<matchVars, fetchVars, cacheVars, catchupVars, parseVars, auxVars>>
    \/ /\ \E l \in 1..Len(loads) : StartQuery(l)
       /\ UNCHANGED <<matchVars, fetchVars, cacheVars, catchupVars, parseVars, auxVars>>
    \/ /\ \E l \in 1..Len(loads), ok \in BOOLEAN : AttemptSettles(l, ok)
       /\ UNCHANGED <<matchVars, fetchVars, cacheVars, catchupVars, parseVars, auxVars>>
    \/ /\ \E w \in writes, ok \in BOOLEAN : StoreWrite(w, ok)
       /\ UNCHANGED <<matchVars, fetchVars, cacheVars, catchupVars, parseVars, auxVars>>

SpecHook == HookInit /\ [][HookNext]_vars

\* The hook left alone with the clock: the page stays open, nobody clicks,
\* the hourly check and the loads it starts run.
StaleNext ==
    \/ /\ \E r \in BOOLEAN : ObserverFetch(r)
       /\ UNCHANGED <<matchVars, fetchVars, cacheVars, catchupVars, parseVars, auxVars>>
    \/ /\ \E r \in BOOLEAN : CheckAndRefresh(r)
       /\ UNCHANGED <<matchVars, fetchVars, cacheVars, catchupVars, parseVars, auxVars>>
    \/ /\ \E l \in 1..Len(loads), rm \in BOOLEAN, r \in BOOLEAN : AfterClear(l, rm, r)
       /\ UNCHANGED <<matchVars, fetchVars, cacheVars, catchupVars, parseVars, auxVars>>
    \/ /\ \E l \in 1..Len(loads) : StartQuery(l)
       /\ UNCHANGED <<matchVars, fetchVars, cacheVars, catchupVars, parseVars, auxVars>>
    \/ /\ \E l \in 1..Len(loads), ok \in BOOLEAN : AttemptSettles(l, ok)
       /\ UNCHANGED <<matchVars, fetchVars, cacheVars, catchupVars, parseVars, auxVars>>
    \/ /\ \E w \in writes, ok \in BOOLEAN : StoreWrite(w, ok)
       /\ UNCHANGED <<matchVars, fetchVars, cacheVars, catchupVars, parseVars, auxVars>>
    \/ /\ Tick
       /\ UNCHANGED <<matchVars, fetchVars, cacheVars, catchupVars, parseVars, auxVars>>

SpecStale == StaleInit /\ [][StaleNext]_vars

\* ------------------------------------------------------------------
\* Catchup resolver (catchupUtils.ts)
\* ------------------------------------------------------------------
\* A URL string is kept in its parts: the scheme ("" when the string has
\* none), the host as written, the path as its segments after each '/'
\* (<<>>: no path at all, <<"">>: the single '/'), and the query as its
\* name=value pairs in order. Query values are numbers.

UrlString(scheme, host, path, query) ==
    [scheme |-> scheme, host |-> host, path |-> path, query |-> query]

Param(k, v) == [k |-> k, v |-> v]

StreamUrls ==
    { UrlString("http://", "cdn.host", <<"325", "mono.m3u8">>, <<>>),
      UrlString("http://", "cdn.host", <<"325", "mono.m3u8">>, <<Param("token", 7)>>),
      UrlString("http://", "cdn.host", <<"325", "mono.m3u8">>,
                <<Param("utc", 1), Param("token", 7), Param("utc", 2)>>),
      UrlString("http://", "CDN.Host", <<>>, <<>>),
      UrlString("http://", "cdnx1.plusx.tv", <<"ch1">>, <<>>),
      UrlString("http://", "PlusX.TV", <<"ch1", "">>, <<>>),
      UrlString("http://", "s1.itvn.io", <<"ch1">>, <<>>),
      UrlString("http://", "cdn.host", <<"itvn.io", "ch1">>, <<>>),
      UrlString("", "cdn.host", <<"325", "mono.m3u8">>, <<>>),
      UrlString("", "", <<>>, <<>>) }

\* String.prototype.toLowerCase on a host or path segment.
LowerToken(t) ==
    CASE t = "CDN.Host" -> "cdn.host"
      [] t = "PlusX.TV" -> "plusx.tv"
      [] t = "FS"       -> "fs"
      [] OTHER          -> t

\* String.prototype.includes(word) on a lower-case host or path segment.
SegmentIncludes(t, word) ==
    \/ t = word
    \/ word = "plusx.tv" /\ t = "cdnx1.plusx.tv"
    \/ word = "itvn.io" /\ t = "s1.itvn.io"

\* channel.url.toLowerCase().includes(word)
UrlLowerIncludes(url, word) ==
    \/ SegmentIncludes(LowerToken(url.host), word)
    \/ \E k \in 1..Len(url.path) : SegmentIncludes(LowerToken(url.path[k]), word)

\* A falsy channel.url: the empty string.
EmptyUrl(url) == url = UrlString("", "", <<>>, <<>>)

MsPerHour == 3600000

\* catchupUtils.ts 53: the window reaches 24 hours past now.
ForwardBufferHours == 24

\* catchupUtils.ts 24: the plusx.tv window.
PlusxHours == 120

\* catchupUtils.ts 33: the itvn.io window when the playlist declares none.
ItvnDefaultHours == 10

\* channel.timeshift and channel.catchup are optional: 0 and "" also stand
\* for an absent value, which the code tests only for truthiness.
Timeshifts == {0, 10, -5}

CatchupTags == {"", "fs", "FS", "shift", "append", "default", "xc"}

Channels == [url : StreamUrls, timeshift : Timeshifts, catchup : CatchupTags]

OrElse(v, empty, d) == IF v = empty THEN d ELSE v

\* Mutant of getCatchupInfo: the plusx.tv window yields to the declared
\* timeshift, as the itvn.io window does.
getCatchupInfoDeclaredWins(channel, nowMs) ==
    LET declared == channel.catchup # "" /\ channel.timeshift # 0 /\ channel.timeshift > 0
        plusx == /\ ~EmptyUrl(channel.url)
                 /\ \/ UrlLowerIncludes(channel.url, "cdnx1.plusx.tv")
                    \/ UrlLowerIncludes(channel.url, "plusx.tv")
        itvn == ~EmptyUrl(channel.url) /\ ~plusx /\ UrlLowerIncludes(channel.url, "itvn.io")
        timeshiftHours ==
            IF plusx THEN OrElse(channel.timeshift, 0, PlusxHours)
            ELSE IF itvn THEN OrElse(channel.timeshift, 0, ItvnDefaultHours)
            ELSE OrElse(channel.timeshift, 0, 0)
        catchupType ==
            IF plusx \/ itvn THEN OrElse(channel.catchup, "", "fs")
            ELSE OrElse(channel.catchup, "", "")
    IN  [ available |-> plusx \/ itvn \/ declared,
          timeshiftHours |-> timeshiftHours,
          type |-> catchupType,
          startTime |-> nowMs - timeshiftHours * MsPerHour,
          endTime |-> nowMs + ForwardBufferHours * MsPerHour ]

\* catchupUtils.ts 3-62.
getCatchupInfo(channel, nowMs) ==
    LET declared == channel.catchup # "" /\ channel.timeshift # 0 /\ channel.timeshift > 0
        plusx == /\ ~EmptyUrl(channel.url)
                 /\ \/ UrlLowerIncludes(channel.url, "cdnx1.plusx.tv")
                    \/ UrlLowerIncludes(channel.url, "plusx.tv")
        itvn == ~EmptyUrl(channel.url) /\ ~plusx /\ UrlLowerIncludes(channel.url, "itvn.io")
        timeshiftHours ==
            IF plusx THEN PlusxHours
            ELSE IF itvn THEN OrElse(channel.timeshift, 0, ItvnDefaultHours)
            ELSE OrElse(channel.timeshift, 0, 0)
        catchupType ==
            IF plusx \/ itvn THEN OrElse(channel.catchup, "", "fs")
            ELSE OrElse(channel.catchup, "", "")
    IN  [ available |-> plusx \/ itvn \/ declared,
          timeshiftHours |-> timeshiftHours,
          type |-> catchupType,
          startTime |-> nowMs - timeshiftHours * MsPerHour,
          endTime |-> nowMs + ForwardBufferHours * MsPerHour ]

\* new URL(s): throws on a string without a scheme; lower-cases the host.
InvalidUrl == [invalid |-> TRUE]

NewURL(s) ==
    IF s.scheme = "" THEN InvalidUrl
    ELSE [s EXCEPT !.host = LowerToken(s.host)]

\* url.pathname.split('/').filter(part => part.length > 0)
PathParts(u) == SelectSeq(u.path, LAMBDA part : part # "")

\* url.pathname = '/' + parts joined by '/'
SetPathname(u, parts) == [u EXCEPT !.path = parts]

RECURSIVE WithoutParam(_, _)
WithoutParam(query, name) ==
    IF query = <<>> THEN <<>>
    ELSE IF Head(query).k = name THEN WithoutParam(Tail(query), name)
         ELSE <<Head(query)>> \o WithoutParam(Tail(query), name)

RECURSIVE SetFirstParam(_, _, _)
SetFirstParam(query, name, value) ==
    IF query = <<>> THEN <<Param(name, value)>>
    ELSE IF Head(query).k = name
         THEN <<Param(name, value)>> \o WithoutParam(Tail(query), name)
         ELSE <<Head(query)>> \o SetFirstParam(Tail(query), name, value)

\* url.searchParams.set(name, value): the first pair of that name gets the
\* value and the others of that name go; appended when there is none.
SearchParamsSet(u, name, value) ==
    [u EXCEPT !.query = SetFirstParam(u.query, name, value)]

\* url.toString(): a URL without a path is written with '/'.
UrlToString(u) == [u EXCEPT !.path = IF u.path = <<>> THEN <<"">> ELSE u.path]

\* catchupUtils.ts 117-201; nowMs is Date.now() of format 4.
generateFlussStreamsCatchupUrl(baseUrl, utcTime, nowMs) ==
    IF NewURL(baseUrl) = InvalidUrl THEN baseUrl
    ELSE
      LET url == NewURL(baseUrl)
          pathParts == PathParts(url)
          pathFormats ==
              IF Len(pathParts) >= 1
              THEN << [ name |-> "timeshift_path",
                        url |-> UrlToString(SetPathname(url,
                                   <<"timeshift", ToString(utcTime)>> \o pathParts)) ],
                      [ name |-> "archive_path",
                        url |-> UrlToString(SetPathname(url,
                                   <<"archive", ToString(utcTime)>> \o pathParts)) ] >>
              ELSE <<>>
          offsetSeconds == (nowMs - utcTime * 1000) \div 1000
          formats ==
              pathFormats \o
              << [ name |-> "utc_param",
                   url |-> UrlToString(SearchParamsSet(url, "utc", utcTime)) ],
                 [ name |-> "offset_param",
                   url |-> UrlToString(SearchParamsSet(url, "offset", offsetSeconds)) ],
                 [ name |-> "archive_param",
                   url |-> UrlToString(SearchParamsSet(url, "archive", utcTime)) ] >>
      IN  formats[3].url

\* Mutant of generateShiftCatchupUrl: no try/catch around new URL.
generateShiftCatchupUrlNoCatch(baseUrl, utcTime) ==
    IF NewURL(baseUrl) = InvalidUrl THEN [thrown |-> TRUE]
    ELSE UrlToString(SearchParamsSet(NewURL(baseUrl), "utc", utcTime))

\* catchupUtils.ts 203-213.
generateShiftCatchupUrl(baseUrl, utcTime) ==
    IF NewURL(baseUrl) = InvalidUrl THEN baseUrl
    ELSE UrlToString(SearchParamsSet(NewURL(baseUrl), "utc", utcTime))

\* catchupUtils.ts 215-224: '?utc=' or '&utc=' is appended to the string.
generateAppendCatchupUrl(baseUrl, utcTime) ==
    [baseUrl EXCEPT !.query = Append(@, Param("utc", utcTime))]

\* Mutant of generateCatchupUrl: the end of the window is not tested.
generateCatchupUrlNoEndTest(channel, targetTime, nowMs) ==
    LET catchupInfo == getCatchupInfo(channel, nowMs)
        utcTime == targetTime \div 1000
        tag == LowerToken(channel.catchup)
    IN  IF ~catchupInfo.available THEN channel.url
        ELSE IF targetTime < catchupInfo.startTime
        THEN channel.url
        ELSE CASE tag = "fs" -> generateFlussStreamsCatchupUrl(channel.url, utcTime, nowMs)
               [] tag = "shift" -> generateShiftCatchupUrl(channel.url, utcTime)
               [] tag \in {"default", "append"} ->
                     generateAppendCatchupUrl(channel.url, utcTime)
               [] OTHER -> generateFlussStreamsCatchupUrl(channel.url, utcTime, nowMs)

\* catchupUtils.ts 64-115.
generateCatchupUrl(channel, targetTime, nowMs) ==
    LET catchupInfo == getCatchupInfo(channel, nowMs)
        utcTime == targetTime \div 1000
        tag == LowerToken(channel.catchup)
    IN  IF ~catchupInfo.available THEN channel.url
        ELSE IF targetTime < catchupInfo.startTime \/ targetTime > catchupInfo.endTime
        THEN channel.url
        ELSE CASE tag = "fs" -> generateFlussStreamsCatchupUrl(channel.url, utcTime, nowMs)
               [] tag = "shift" -> generateShiftCatchupUrl(channel.url, utcTime)
               [] tag \in {"default", "append"} ->
                     generateAppendCatchupUrl(channel.url, utcTime)
               [] OTHER -> generateFlussStreamsCatchupUrl(channel.url, utcTime, nowMs)

\* The clock readings and the target times tried: the edges of the 10 h
\* and 120 h windows, of the forward buffer, and times inside.
\* catchupUtils.ts 257: a future time is let through up to 48 hours ahead.
ScheduledHours == 48

\* catchupUtils.ts 226-274, evaluated at nowMs.
isTimeWithinCatchup(channel, time, nowMs) ==
    LET catchupInfo == getCatchupInfo(channel, nowMs)
        ahead == time - nowMs
    IN  IF ~catchupInfo.available THEN FALSE
        ELSE IF time > catchupInfo.endTime
                /\ ~(ahead > 0 /\ ahead <= ScheduledHours * MsPerHour)
        THEN FALSE
        ELSE time >= catchupInfo.startTime

CatchupNows == {600000500}

TargetOffsets ==
    { -(PlusxHours * MsPerHour) - 1, -(PlusxHours * MsPerHour),
      -(ItvnDefaultHours * MsPerHour) - 1, -(ItvnDefaultHours * MsPerHour),
      -1500, 0, ForwardBufferHours * MsPerHour, ForwardBufferHours * MsPerHour + 1,
      ScheduledHours * MsPerHour, ScheduledHours * MsPerHour + 1 }

CatchupInit ==
    /\ AuxIdle
    /\ MatchIdle
    /\ FetchIdle
    /\ CacheIdle
    /\ HookIdle
    /\ ParseIdle
    /\ kChannel \in Channels
    /\ kNow \in CatchupNows
    /\ kTarget \in { kNow + d : d \in TargetOffsets }
    /\ kInfo = NoInfo
    /\ kUrl = NoResult
    /\ kWithin = "none"

\* A caller (CatchupSeekbar, ProgramCard) asks for the window.
GetCatchupInfo ==
    /\ kInfo' = getCatchupInfo(kChannel, kNow)
    /\ UNCHANGED <<kChannel, kNow, kTarget, kUrl, kWithin>>

\* A caller (VideoPlayer) asks for the URL of the target time.
GenerateCatchupUrl ==
    /\ kUrl' = generateCatchupUrl(kChannel, kTarget, kNow)
    /\ UNCHANGED <<kChannel, kNow, kTarget, kInfo, kWithin>>

\* A caller (ProgramCard, VideoPlayer) asks whether the time can be played.
IsTimeWithinCatchup ==
    /\ kWithin' = IF isTimeWithinCatchup(kChannel, kTarget, kNow) THEN "true" ELSE "false"
    /\ UNCHANGED <<kChannel, kNow, kTarget, kInfo, kUrl>>

CatchupNext ==
    \/ /\ IsTimeWithinCatchup
       /\ UNCHANGED <<matchVars, fetchVars, cacheVars, hookVars, parseVars, auxVars>>
    \/ /\ GetCatchupInfo
       /\ UNCHANGED <<matchVars, fetchVars, cacheVars, hookVars, parseVars, auxVars>>
    \/ /\ GenerateCatchupUrl
       /\ UNCHANGED <<matchVars, fetchVars, cacheVars, hookVars, parseVars, auxVars>>

SpecCatchup == CatchupInit /\ [][CatchupNext]_vars


\* ------------------------------------------------------------------
\* XMLTV parser (epgParser.ts 231-429)
\* ------------------------------------------------------------------
\* The instants of this section are whole seconds since the epoch (every
\* instant parseXmltvTime builds from a timestamp is a whole second).

\* getAttribute: an attribute with its value, or none (null).
Attr(v) == [has |-> TRUE, value |-> v]

\* An XMLTV timestamp string by what the pattern of parseXmltvTime finds
\* in it: the 14 digits as <<YYYY, MM, DD, HH, mm, ss>> (<<>>: the string
\* has no run of 14 digits) and the offset as <<sign, HH, MM>> (<<>>: none
\* follows the digits); text is the string's kind, "" for the empty string.
TimeStr(text, digits, tz) == [text |-> text, digits |-> digits, tz |-> tz]

EmptyStr == TimeStr("", <<>>, <<>>)

GarbageStr == TimeStr("soon", <<>>, <<>>)

\* '20231215120000 +0100'
T1200p0100 == TimeStr("xmltv", <<2023, 12, 15, 12, 0, 0>>, <<1, 1, 0>>)

\* '20231215120000 -0130'
T1200m0130 == TimeStr("xmltv", <<2023, 12, 15, 12, 0, 0>>, <<-1, 1, 30>>)

\* '20231215110000 +0000'
T1100p0000 == TimeStr("xmltv", <<2023, 12, 15, 11, 0, 0>>, <<1, 0, 0>>)

\* '20240229235959 +0200'
T2359p0200 == TimeStr("xmltv", <<2024, 2, 29, 23, 59, 59>>, <<1, 2, 0>>)

\* '20231215120000'
T1200 == TimeStr("xmltv", <<2023, 12, 15, 12, 0, 0>>, <<>>)

NoTimeAttr == [has |-> FALSE, value |-> EmptyStr]

NoIdAttr == [has |-> FALSE, value |-> <<>>]

\* !value of an attribute read: null or the empty string.
Falsy(attr, empty) == ~attr.has \/ attr.value = empty

\* Days from 1970-01-01 to the civil date y-m-d (m in 1..12).
DaysFromCivil(y, m, d) ==
    LET yy == IF m <= 2 THEN y - 1 ELSE y
        era == yy \div 400
        yoe == yy - era * 400
        mp == IF m > 2 THEN m - 3 ELSE m + 9
        doy == (153 * mp + 2) \div 5 + d - 1
        doe == yoe * 365 + yoe \div 4 - yoe \div 100 + doy
    IN  era * 146097 + doe - 719468

\* Date.UTC(year, monthIndex, day, hour, minute, second) / 1000: fields out
\* of range carry over, a year 0..99 means 1900 + year.
DateUTC(year, monthIndex, day, hour, minute, second) ==
    LET full == IF year >= 0 /\ year <= 99 THEN 1900 + year ELSE year
        y == full + (monthIndex \div 12)
        m == (monthIndex % 12) + 1
    IN  (DaysFromCivil(y, m, 1) + day - 1) * 86400 + hour * 3600 + minute * 60 + second

\* Mutant of parseXmltvTime: the offset is added instead of subtracted.
parseXmltvTimeOffsetAdded(timeStr, nowSec, month) ==
    IF timeStr.digits = <<>> THEN nowSec
    ELSE
      LET dt == timeStr.digits
          date == DateUTC(dt[1], dt[2] - 1, dt[3], dt[4], dt[5], dt[6])
      IN  IF timeStr.tz # <<>>
          THEN LET offset == timeStr.tz[1] * (timeStr.tz[2] * 60 + timeStr.tz[3]) * 60
               IN  date + offset
          ELSE LET isWinter == month < 2 \/ month > 9
                   polishOffset == IF isWinter THEN 1 ELSE 2
               IN  date - polishOffset * 60 * 60

\* epgParser.ts 393-429; nowSec and month are new Date() of the call.
parseXmltvTime(timeStr, nowSec, month) ==
    IF timeStr.digits = <<>> THEN nowSec
    ELSE
      LET dt == timeStr.digits
          date == DateUTC(dt[1], dt[2] - 1, dt[3], dt[4], dt[5], dt[6])
      IN  IF timeStr.tz # <<>>
          THEN LET offset == timeStr.tz[1] * (timeStr.tz[2] * 60 + timeStr.tz[3]) * 60
               IN  date - offset
          ELSE LET isWinter == month < 2 \/ month > 9
                   polishOffset == IF isWinter THEN 1 ELSE 2
               IN  date - polishOffset * 60 * 60


\* ---- the document ----

\* A channel element: its id attribute and the text of its display-name
\* child (<<>>: no such child, or an empty one).
ChannelEl(id, name) == [id |-> id, name |-> name]

\* A programme element: its channel, start and stop attributes.
ProgrammeEl(ch, start, stop) == [channel |-> ch, start |-> start, stop |-> stop]

ChannelElements ==
    { ChannelEl(NoIdAttr, <<"N">>),
      ChannelEl(Attr(<<>>), <<>>),
      ChannelEl(Attr(<<"a">>), <<>>),
      ChannelEl(Attr(<<"a">>), <<"N">>),
      ChannelEl(Attr(<<"b">>), <<>>) }

\* start and stop as feeds carry them: in order, reversed, equal instants,
\* without offset, unparseable, empty, missing.
StartStops ==
    { <<Attr(T1200p0100), Attr(T1200m0130)>>,
      <<Attr(T1200m0130), Attr(T1200p0100)>>,
      <<Attr(T1200p0100), Attr(T1100p0000)>>,
      <<Attr(T1200), Attr(T2359p0200)>>,
      <<Attr(GarbageStr), Attr(T2359p0200)>>,
      <<NoTimeAttr, Attr(T1200m0130)>>,
      <<Attr(T1200p0100), Attr(EmptyStr)>> }

\* The channel attribute names a declared channel, an undeclared one, or
\* is missing.
ProgrammeElements ==
    { ProgrammeEl(c, ss[1], ss[2]) :
        c \in { Attr(<<"a">>), Attr(<<"c">>), NoIdAttr }, ss \in StartStops }

\* Bound: channel elements of a document.
MaxDocChannels == 2

\* Bound: programme elements of a document.
MaxDocProgrammes == 2

Documents ==
    [ channels : UNION { [1..n -> ChannelElements] : n \in 0..MaxDocChannels },
      programmes : UNION { [1..n -> ProgrammeElements] : n \in 0..MaxDocProgrammes } ]

\* Mutant of ParseChannels: the channels are collected in a list, an id
\* seen before is added again.
RECURSIVE ParseChannelsNoMap(_, _)
ParseChannelsNoMap(els, channels) ==
    IF els = <<>> THEN channels
    ELSE LET el == Head(els)
         IN  IF Falsy(el.id, <<>>) THEN ParseChannelsNoMap(Tail(els), channels)
             ELSE ParseChannelsNoMap(Tail(els),
                    Append(channels,
                           [ id |-> el.id.value,
                             displayName |-> IF el.name = <<>> THEN el.id.value ELSE el.name,
                             programs |-> <<>> ]))

\* epgParser.ts 245-260: channelElements.forEach.
RECURSIVE ParseChannels(_, _)
ParseChannels(els, channels) ==
    IF els = <<>> THEN channels
    ELSE LET el == Head(els)
         IN  IF Falsy(el.id, <<>>) THEN ParseChannels(Tail(els), channels)
             ELSE ParseChannels(Tail(els),
                    MapSet(channels, el.id.value,
                           [ id |-> el.id.value,
                             displayName |-> IF el.name = <<>> THEN el.id.value ELSE el.name,
                             programs |-> <<>> ]))

\* epgParser.ts 278-326: the programmes in document order; programIndex
\* counts the programmes kept.
RECURSIVE ParseProgrammes(_, _, _, _)
ParseProgrammes(els, programs, nowSec, month) ==
    IF els = <<>> THEN programs
    ELSE LET el == Head(els)
         IN  IF Falsy(el.channel, <<>>) \/ Falsy(el.start, EmptyStr) \/ Falsy(el.stop, EmptyStr)
             THEN ParseProgrammes(Tail(els), programs, nowSec, month)
             ELSE ParseProgrammes(Tail(els),
                    Append(programs,
                           [ id |-> <<el.channel.value, el.start.value, Len(programs)>>,
                             channelId |-> el.channel.value,
                             start |-> parseXmltvTime(el.start.value, nowSec, month),
                             stop |-> parseXmltvTime(el.stop.value, nowSec, month) ]),
                    nowSec, month)

\* Mutant of parseXmltvData: the lists stay in document order.
parseXmltvDataDocumentOrder(doc, nowSec, month) ==
    LET declared == ParseChannels(doc.channels, <<>>)
        programs == ParseProgrammes(doc.programmes, <<>>, nowSec, month)
    IN  [ channels |-> [k \in 1..Len(declared) |->
                          [declared[k] EXCEPT !.programs =
                              SelectSeq2(programs, declared[k].id)]],
          programs |-> programs,
          generatedAt |-> nowSec ]

\* epgParser.ts 231-391 on a well-formed document.
parseXmltvData(doc, nowSec, month) ==
    LET declared == ParseChannels(doc.channels, <<>>)
        programs == ParseProgrammes(doc.programmes, <<>>, nowSec, month)
    IN  [ channels |-> [k \in 1..Len(declared) |->
                          [declared[k] EXCEPT !.programs =
                              SortByStart(SelectSeq2(programs, declared[k].id))]],
          programs |-> SortByStart(programs),
          generatedAt |-> nowSec ]

\* 2023-12-15T12:00:05Z and 2024-06-15T12:00:05Z: a winter and a summer
\* parse, month 11 and month 5.
ParseClocks == { <<1702641605, 11>>, <<1718452805, 5>> }

ParseUrl == <<"http://", "epg.host", "/guide.xml">>

ParseInit ==
    /\ AuxIdle
    /\ MatchIdle
    /\ FetchIdle
    /\ CacheIdle
    /\ HookIdle
    /\ CatchupIdle
    /\ pDoc \in Documents
    /\ \E c \in ParseClocks : pNow = c[1] /\ pMonth = c[2]
    /\ pResult = NoResult
    /\ pLoaded = NoResult

\* fetchAndParseEpg parses the decoded text (epgParser.ts 170-182).
ParseXmltvData ==
    /\ pResult = NoResult
    /\ pResult' = parseXmltvData(pDoc, pNow, pMonth)
    /\ UNCHANGED <<pDoc, pNow, pMonth, pLoaded>>

\* The parsed data is saved (epgParser.ts 186) and read back on a later
\* mount (useEpg.ts 119).
SaveAndLoad(writeOk, readOk) ==
    /\ pResult # NoResult
    /\ pLoaded = NoResult
    /\ LET store == saveParsedEpgCache({}, ParseUrl, pResult, pNow, writeOk)
           cached == loadParsedEpgCache(store, ParseUrl, readOk)
       IN  pLoaded' = IF cached = Null THEN Null ELSE cached.data
    /\ UNCHANGED <<pDoc, pNow, pMonth, pResult>>

ParseNext ==
    \/ /\ ParseXmltvData
       /\ UNCHANGED <<matchVars, fetchVars, cacheVars, hookVars, catchupVars, auxVars>>
    \/ /\ \E w \in BOOLEAN, r \in BOOLEAN : SaveAndLoad(w, r)
       /\ UNCHANGED <<matchVars, fetchVars, cacheVars, hookVars, catchupVars, auxVars>>

SpecParse == ParseInit /\ [][ParseNext]_vars

\* ------------------------------------------------------------------
\* Payload decoding in fetchAndParseEpg (epgParser.ts 168-189)
\* ------------------------------------------------------------------

\* The body of a response: a gzip stream of a text, bytes that pako rejects
\* although the text was compressed (a damaged stream), or the text itself.
Wires == {"gzip", "damaged", "plain"}

\* The text: a well-formed XMLTV document, or one the DOMParser answers
\* with a parsererror document.
Texts == {"xmltv", "malformed"}

Payloads == [wire : Wires, text : Texts]

\* pako.ungzip(uint8Array, { to: 'string' }): throws unless the bytes are
\* a gzip stream.
ungzip(payload) ==
    IF payload.wire = "gzip"
    THEN [threw |-> FALSE, text |-> payload.text]
    ELSE [threw |-> TRUE, text |-> ""]

\* new TextDecoder('utf-8').decode(uint8Array): the bytes as text; the
\* bytes of a gzip stream are no XML.
TextDecode(payload) == IF payload.wire = "plain" THEN payload.text ELSE "binary"

\* parseXmltvData throws 'Failed to parse EPG XML data' (epgParser.ts
\* 235-237) unless the text is a well-formed document.
ParserAccepts(text) == text = "xmltv"

\* epgParser.ts 185: originalUrl || url.
cacheKeyOf(url, originalUrl) ==
    IF originalUrl.has /\ originalUrl.value # <<>> THEN originalUrl.value ELSE url

DecodeUrls == { <<"http://", "epg.host", "/guide.xml">>,
                <<"https://", "corsproxy.io", "/?", "http%3A%2F%2F", "epg.host", "%2Fguide.xml">> }

OriginalUrls == { [has |-> FALSE, value |-> <<>>], [has |-> TRUE, value |-> <<>>],
                  [has |-> TRUE, value |-> <<"http://", "epg.host", "/guide.xml">>] }

DecodeInit ==
    /\ MatchIdle
    /\ FetchIdle
    /\ CacheIdle
    /\ HookIdle
    /\ UtilIdle
    /\ ResetIdle
    /\ StateIdle
    /\ ChunkIdle
    /\ dUrl \in DecodeUrls
    /\ dOriginalUrl \in OriginalUrls
    /\ dPayload \in Payloads
    /\ dPc = "ungzip"
    /\ dCalls = <<>>
    /\ dOutcome = "pending"
    /\ dSavedKey = {}

\* epgParser.ts 174-175: pako.ungzip inside the try.
Ungzip ==
    /\ dPc = "ungzip"
    /\ dPc' = IF ungzip(dPayload).threw THEN "fallback" ELSE "parse"
    /\ UNCHANGED <<dUrl, dOriginalUrl, dPayload, dCalls, dOutcome, dSavedKey>>

\* epgParser.ts 176: parseXmltvData(decompressed), inside the same try as
\* the ungzip: its throw is caught by catch (decompError) at 177.
ParseDecompressed ==
    /\ dPc = "parse"
    /\ LET text == ungzip(dPayload).text
       IN  /\ dCalls' = Append(dCalls, text)
           /\ dPc' = IF ParserAccepts(text) THEN "save" ELSE "fallback"
    /\ UNCHANGED <<dUrl, dOriginalUrl, dPayload, dOutcome, dSavedKey>>

\* epgParser.ts 177-182: the raw bytes are decoded and parsed; a throw
\* reaches the outer catch (190-193), which rethrows.
ParsePlainText ==
    /\ dPc = "fallback"
    /\ LET text == TextDecode(dPayload)
       IN  /\ dCalls' = Append(dCalls, text)
           /\ IF ParserAccepts(text)
              THEN dPc' = "save" /\ UNCHANGED dOutcome
              ELSE dPc' = "done" /\ dOutcome' = "error"
    /\ UNCHANGED <<dUrl, dOriginalUrl, dPayload, dSavedKey>>

\* epgParser.ts 185-189: the save is started under the cache key and the
\* data is returned.
SaveAndReturn ==
    /\ dPc = "save"
    /\ dSavedKey' = {cacheKeyOf(dUrl, dOriginalUrl)}
    /\ dOutcome' = "data"
    /\ dPc' = "done"
    /\ UNCHANGED <<dUrl, dOriginalUrl, dPayload, dCalls>>

DecodeNext ==
    \/ /\ Ungzip
       /\ UNCHANGED <<coreVars, resetVars, stateVars, chunkVars>>
    \/ /\ ParseDecompressed
       /\ UNCHANGED <<coreVars, resetVars, stateVars, chunkVars>>
    \/ /\ ParsePlainText
       /\ UNCHANGED <<coreVars, resetVars, stateVars, chunkVars>>
    \/ /\ SaveAndReturn
       /\ UNCHANGED <<coreVars, resetVars, stateVars, chunkVars>>

SpecDecode == DecodeInit /\ [][DecodeNext]_vars

\* ------------------------------------------------------------------
\* Settings: save of an EPG URL, Reset Everything (Settings.tsx)
\* ------------------------------------------------------------------

\* The URLs a user configures one after the other; validateEpgUrl
\* (Settings.tsx 244-256) accepts each of them.
SettingsUrls ==
    { <<"http://", "epg.host", "/guide.xml">>,
      <<"https://", "epg.host", "/guide.xml">>,
      <<"http://", NonLatin1Token, "/guide.xml">> }

\* The dataset a successful load of url saves.
LoadedData == BuildEpgData(<< <<"a">> >>, <<CacheProgram(<<"a">>, 0, 0)>>, 0)

\* The URLs with an entry in the store.
CachedUrls(store) == { u \in SettingsUrls : ~BtoaThrows(u) /\ StoreGet(store, CacheKey(u)) # Null }

ResetInit ==
    /\ MatchIdle
    /\ FetchIdle
    /\ CacheIdle
    /\ HookIdle
    /\ UtilIdle
    /\ DecodeIdle
    /\ StateIdle
    /\ ChunkIdle
    /\ rSettings = <<>>
    /\ rStored = <<>>
    /\ rPlaylist \in BOOLEAN
    /\ rStore = {}
    /\ rBefore = {}
    /\ rReset = "none"

\* Settings.tsx 259-310, onSubmitEpg with a new, valid URL: the settings
\* are set and persisted, the entry of the new URL is removed, and the
\* forced load that follows saves an entry when it succeeds. btoa throws
\* at 291 for a URL outside Latin-1, after the settings were persisted.
SubmitEpg(url, removeOk, loadOk) ==
    /\ url # <<>>
    /\ url # rSettings
    /\ rSettings' = url
    /\ rStored' = url
    /\ rStore' =
          IF BtoaThrows(url) \/ ~removeOk THEN rStore
          ELSE LET removed == StoreRemove(rStore, CacheKey(url))
               IN  IF loadOk
                   THEN saveParsedEpgCache(removed, url, LoadedData, 0, TRUE)
                   ELSE removed
    /\ rReset' = "none"
    /\ rBefore' = {}
    /\ UNCHANGED rPlaylist

\* usePlaylist.ts 24-27: a playlist is stored.
SetPlaylist ==
    /\ ~rPlaylist
    /\ rPlaylist' = TRUE
    /\ UNCHANGED <<rSettings, rStored, rStore, rBefore, rReset>>

\* Settings.tsx 214-227: the component is mounted again (the app is
\* reloaded) and reads its settings from localStorage.
Remount ==
    /\ rSettings # rStored
    /\ rSettings' = rStored
    /\ UNCHANGED <<rStored, rPlaylist, rStore, rBefore, rReset>>

\* Settings.tsx 334-372, handleResetEverything. After the confirmation:
\* clearPlaylist (347); the entry of settings.epgUrl is removed (350-353),
\* where btoa or removeItem can throw; setSettings (357); then the call of
\* setUnsavedEpgUrl (358), an identifier the module never declares, throws
\* a ReferenceError, so localStorage.setItem (359) and the event (365) are
\* not reached and the catch (368-371) alerts the error.
ResetEverything(confirmed, removeOk) ==
    /\ rBefore' = CachedUrls(rStore)
    /\ IF ~confirmed
       THEN /\ rReset' = "cancelled"
            /\ UNCHANGED <<rSettings, rStored, rPlaylist, rStore>>
       ELSE /\ rPlaylist' = FALSE
            /\ rReset' = "error"
            /\ UNCHANGED rStored
            /\ IF rSettings # <<>> /\ (BtoaThrows(rSettings) \/ ~removeOk)
               THEN UNCHANGED <<rSettings, rStore>>
               ELSE /\ rStore' = IF rSettings # <<>>
                                 THEN StoreRemove(rStore, CacheKey(rSettings))
                                 ELSE rStore
                    /\ rSettings' = <<>>

ResetNext ==
    \/ /\ \E u \in SettingsUrls, rm \in BOOLEAN, ok \in BOOLEAN : SubmitEpg(u, rm, ok)
       /\ UNCHANGED <<coreVars, decodeVars, stateVars, chunkVars>>
    \/ /\ SetPlaylist
       /\ UNCHANGED <<coreVars, decodeVars, stateVars, chunkVars>>
    \/ /\ Remount
       /\ UNCHANGED <<coreVars, decodeVars, stateVars, chunkVars>>
    \/ /\ \E c \in BOOLEAN, rm \in BOOLEAN : ResetEverything(c, rm)
       /\ UNCHANGED <<coreVars, decodeVars, stateVars, chunkVars>>

SpecReset == ResetInit /\ [][ResetNext]_vars

\* ------------------------------------------------------------------
\* The useEpgState hook (useEpgState.ts)
\* ------------------------------------------------------------------
\* The callbacks of a render close over the loadingState and error of that
\* render (useCallback, 83-102). The setters of useState queue their
\* updates; the next render applies them in order.

LoadingStates == {"idle", "loading", "parsing", "complete", "error"}

\* The errorMessage arguments: a message, and the empty message.
Messages == {"Failed to load EPG", ""}

Message(m) == [has |-> TRUE, value |-> m]

\* `error` as a condition: null and '' are falsy.
Truthy(error) == error.has /\ error.value # ""

\* Bound: calls made between two renders.
MaxBatch == 2

Call(op, arg) == [op |-> op, arg |-> arg]

StateInit ==
    /\ MatchIdle
    /\ FetchIdle
    /\ CacheIdle
    /\ HookIdle
    /\ UtilIdle
    /\ DecodeIdle
    /\ ResetIdle
    /\ StateIdle
    /\ ChunkIdle

\* useEpgState.ts 86-89: the error queued after setLoadingState(state),
\* error being the value the callback closed over.
ErrorAfterSetLoadingState(state, error, nextError) ==
    IF state # "error" /\ Truthy(error) THEN NoError ELSE nextError

\* useEpgState.ts 83-90.
SetLoadingState(state) ==
    /\ Len(sBatch) < MaxBatch
    /\ sNextLoading' = state
    /\ sNextError' = ErrorAfterSetLoadingState(state, sError, sNextError)
    /\ sBatch' = Append(sBatch, Call("setLoadingState", state))
    /\ UNCHANGED <<sLoading, sError, sDone, sPrev>>

\* useEpgState.ts 92-95.
SetError(errorMessage) ==
    /\ Len(sBatch) < MaxBatch
    /\ sNextError' = Message(errorMessage)
    /\ sNextLoading' = "error"
    /\ sBatch' = Append(sBatch, Call("setError", errorMessage))
    /\ UNCHANGED <<sLoading, sError, sDone, sPrev>>

\* Mutant of LoadingAfterClearError: the state always goes to 'idle'.
LoadingAfterClearErrorAlwaysIdle(loadingState, nextLoading) == "idle"

\* useEpgState.ts 99-101: the loadingState queued after clearError(),
\* loadingState being the value the callback closed over.
LoadingAfterClearError(loadingState, nextLoading) ==
    IF loadingState = "error" THEN "idle" ELSE nextLoading

\* useEpgState.ts 97-102.
ClearError ==
    /\ Len(sBatch) < MaxBatch
    /\ sNextError' = NoError
    /\ sNextLoading' = LoadingAfterClearError(sLoading, sNextLoading)
    /\ sBatch' = Append(sBatch, Call("clearError", ""))
    /\ UNCHANGED <<sLoading, sError, sDone, sPrev>>

\* The component renders again: the queued updates become the state and
\* the callbacks are built anew (deps [error], [loadingState]).
Render ==
    /\ sBatch # <<>>
    /\ sPrev' = [loading |-> sLoading, error |-> sError]
    /\ sLoading' = sNextLoading
    /\ sError' = sNextError
    /\ sDone' = sBatch
    /\ sBatch' = <<>>
    /\ UNCHANGED <<sNextLoading, sNextError>>

StateNext ==
    \/ /\ \E st \in LoadingStates : SetLoadingState(st)
       /\ UNCHANGED <<coreVars, decodeVars, resetVars, chunkVars>>
    \/ /\ \E m \in Messages : SetError(m)
       /\ UNCHANGED <<coreVars, decodeVars, resetVars, chunkVars>>
    \/ /\ ClearError
       /\ UNCHANGED <<coreVars, decodeVars, resetVars, chunkVars>>
    \/ /\ Render
       /\ UNCHANGED <<coreVars, decodeVars, resetVars, chunkVars>>

SpecState == StateInit /\ [][StateNext]_vars

\* ------------------------------------------------------------------
\* processInChunks (epgParser.ts 197-229)
\* ------------------------------------------------------------------

\* Bound: items.length.
MaxItems == 8

\* Bound: chunkSize (the parser passes 500).
MaxChunkSize == 4

ChunkInit ==
    /\ MatchIdle
    /\ FetchIdle
    /\ CacheIdle
    /\ HookIdle
    /\ UtilIdle
    /\ DecodeIdle
    /\ ResetIdle
    /\ StateIdle
    /\ qLength \in 0..MaxItems
    /\ qChunkSize \in 1..MaxChunkSize
    /\ qIndex = 0
    /\ qCalls = <<>>
    /\ qChunks = <<>>
    /\ qProgress = <<>>
    /\ qPc = "called"

\* Mutant of EndIndex: the chunk is not cut at the end of the list.
EndIndexNoMin(index, chunkSize, length) == index + chunkSize

\* epgParser.ts 207: Math.min(index + chunkSize, items.length).
EndIndex(index, chunkSize, length) ==
    IF index + chunkSize < length THEN index + chunkSize ELSE length

\* epgParser.ts 206-225, processChunk: run by the call of processInChunks
\* (227) and by the timer (222). The items index..endIndex-1 are processed
\* in order, the progress is reported, and either a timer is set or the
\* promise is resolved.
ProcessChunk ==
    /\ qPc \in {"called", "timer"}
    /\ LET endIndex == EndIndex(qIndex, qChunkSize, qLength)
       IN  /\ qCalls' = qCalls \o [k \in 1..(endIndex - qIndex) |-> qIndex + k - 1]
           /\ qChunks' = Append(qChunks, endIndex - qIndex)
           /\ qIndex' = endIndex
           /\ qProgress' = Append(qProgress, endIndex)
           /\ qPc' = IF endIndex < qLength THEN "timer" ELSE "resolved"
    /\ UNCHANGED <<qLength, qChunkSize>>

ChunkNext ==
    /\ ProcessChunk
    /\ UNCHANGED <<coreVars, decodeVars, resetVars, stateVars>>

SpecChunks == ChunkInit /\ [][ChunkNext]_vars

\* A timer set with setTimeout(processChunk, 0) fires.
SpecChunksFair == SpecChunks /\ WF_vars(ChunkNext)

\* ------------------------------------------------------------------
\* Properties of the hook
\* ------------------------------------------------------------------

Emitted(l, st) == \E k \in 1..Len(loads[l].emitted) : loads[l].emitted[k] = st

\* C2: a load invoked for a URL while another load for the same URL is
\* still in 'loading' or 'parsing' starts no fetch sequence of its own (it
\* never attempts a candidate).
C2_SingleFlight ==
    \A l \in 1..Len(loads) : loads[l].overlapped => loads[l].i = 0

\* Load l is fetching and a newer load has taken over its query.
Superseded(l) == loads[l].pc = "fetch" /\ inflight[loads[l].url] # l

\* C3: the step in which a superseded load's successful result arrives
\* changes neither the loaded EpgData nor epgLoadedAt nor the loading state,
\* and starts no write to the cache entry.
C3_LateResultDiscarded ==
    [][\A l \in 1..Len(loads) :
          (Superseded(l) /\ loads'[l].pc = "returned") =>
             /\ queryData' = queryData
             /\ epgLoadedAt' = epgLoadedAt
             /\ epgLoadingState' = epgLoadingState
             /\ writes' = writes]_vars

\* C5: a cache read that throws leaves the cache query without data and
\* without an error; a load whose cache write threw has got its data back
\* from fetchAndParseEpg and reported 'complete', and the step in which the
\* write throws changes neither the load's outcome nor the loading state.
C5_CacheFailuresAbsorbed ==
    /\ [](~observer.error)
    /\ []((observer.lastRead = "threw" /\ loads = <<>>) =>
             queryData[settings.epgUrl] = Null)
    /\ [](\A l \in 1..Len(loads) :
             loads[l].saveThrew => loads[l].pc = "returned" /\ Emitted(l, "complete"))
    /\ [][\A l \in 1..Len(loads) :
             (loads'[l].saveThrew /\ ~loads[l].saveThrew) =>
                /\ loads'[l] = [loads[l] EXCEPT !.saveThrew = TRUE]
                /\ epgLoadingState' = epgLoadingState
                /\ queryData' = queryData]_vars

C5_Witness ==
    /\ observer.lastRead = "threw"
    /\ \E l \in 1..Len(loads) : loads[l].saveThrew /\ epgLoadingState = "complete"

HasPrograms(st, qd) == getChannelPrograms(EpgDataOf(st, qd), <<"a">>) # <<>>

\* C6: a step of a forced load (its invocation included) never takes the
\* programmes away: if getChannelPrograms returned programmes for a channel
\* before the step, it returns programmes for it after the step.
C6_OldDataStaysAvailable ==
    [][(/\ HasPrograms(settings, queryData)
        /\ \E l \in 1..Len(loads') :
              /\ loads'[l].force
              /\ l > Len(loads) \/ loads'[l] # loads[l])
       => HasPrograms(settings', queryData')]_vars

\* C7: a check starts the forced refresh exactly when the age of the data
\* has reached the configured settings.epgRefreshInterval hours.
C7_StalenessPolicy ==
    lastCheck # NoCheck =>
       (lastCheck.started <=>
          lastCheck.at - lastCheck.loadedAt >= lastCheck.interval * HourMs)

Terminals(l) ==
    { k \in 1..Len(loads[l].emitted) : loads[l].emitted[k] \in {"complete", "error"} }

\* C8: a load reports at most one terminal state, 'complete' exactly when
\* a candidate was fetched and parsed and 'error' exactly when every
\* candidate failed, 'loading' first and 'complete' only after 'parsing'.
C8_OneTerminalState ==
    \A l \in 1..Len(loads) :
       /\ Cardinality(Terminals(l)) <= 1
       /\ Emitted(l, "complete") <=> loads[l].pc = "returned"
       /\ Emitted(l, "error") <=> loads[l].pc = "threw"
       /\ loads[l].emitted[1] = "loading"
       /\ Emitted(l, "complete") => Emitted(l, "parsing")

\* ------------------------------------------------------------------
\* Properties of the catchup resolver
\* ------------------------------------------------------------------

\* The window of the channel in kChannel at kNow.
Window == getCatchupInfo(kChannel, kNow)

OutsideWindow ==
    \/ kTarget < kNow - Window.timeshiftHours * MsPerHour
    \/ kTarget > kNow + ForwardBufferHours * MsPerHour

\* C11: when the window is unavailable or the target time lies before
\* now - timeshiftHours or after now + 24 h, generateCatchupUrl returns
\* channel.url unchanged.
C11_FallbackToLiveUrl ==
    (kUrl # NoResult /\ (~Window.available \/ OutsideWindow)) => kUrl = kChannel.url

C11_Witness ==
    /\ kUrl = kChannel.url
    /\ kChannel.url.scheme # ""
    /\ Window.available
    /\ kTarget > kNow + ForwardBufferHours * MsPerHour

\* The tag generateCatchupUrl dispatches on sends the channel to the
\* FlussStreamS format: 'fs', an unrecognised tag or none.
FlussTag == LowerToken(kChannel.catchup) \notin {"shift", "default", "append"}

\* C12: for tag 'fs', an unrecognised or a missing tag, and a target time
\* inside the window, the URL returned for a well-formed base URL is the
\* base URL with /timeshift/<unix seconds>/ put before its path segments,
\* host and query unchanged.
C12_PathRewrite ==
    ( /\ kUrl # NoResult
      /\ Window.available
      /\ ~OutsideWindow
      /\ FlussTag
      /\ kChannel.url.scheme # "" )
    => /\ kUrl.path = <<"timeshift", ToString(kTarget \div 1000)>> \o PathParts(kChannel.url)
       /\ kUrl.host = LowerToken(kChannel.url.host)
       /\ kUrl.query = kChannel.url.query

OnPlusx == UrlLowerIncludes(kChannel.url, "plusx.tv")

OnItvn == UrlLowerIncludes(kChannel.url, "itvn.io")

\* C13: getCatchupInfo returns startTime = now - timeshiftHours hours and
\* endTime = now + 24 hours; a declared timeshift of 10 on a domain without
\* override gives startTime = now - 10 h, and a URL containing plusx.tv
\* gives 120 hours whatever the channel declares.
C13_WindowBounds ==
    kInfo # NoInfo =>
       /\ kInfo.startTime + kInfo.timeshiftHours * 3600 * 1000 = kNow
       /\ kInfo.endTime - ForwardBufferHours * 3600 * 1000 = kNow
       /\ (kChannel.timeshift = 10 /\ ~OnPlusx /\ ~OnItvn) =>
             kInfo.timeshiftHours = 10 /\ kInfo.startTime = kNow - 36000000
       /\ OnPlusx => kInfo.timeshiftHours = 120 /\ kInfo.startTime = kNow - 432000000

C13_Witness ==
    /\ kInfo # NoInfo
    /\ OnPlusx
    /\ kChannel.timeshift = 10
    /\ kInfo.startTime = kNow - 432000000

\* C14: whenever getCatchupInfo returns available = true, timeshiftHours is
\* greater than 0, the type is not empty and startTime is before now; on a
\* domain without override available is true only if the channel declares a
\* catchup tag and a timeshift greater than 0.
C14_AvailableMeansWindow ==
    (kInfo # NoInfo /\ kInfo.available) =>
       /\ kInfo.timeshiftHours > 0
       /\ kInfo.type # ""
       /\ kInfo.startTime < kNow
       /\ (~OnPlusx /\ ~OnItvn) => (kChannel.catchup # "" /\ kChannel.timeshift > 0)

\* C15: generateCatchupUrl returns a string for every base URL, and for a
\* base URL that new URL rejects the 'fs', 'shift' and default branches
\* return the base URL unchanged.
C15_MalformedBaseUrl ==
    kUrl # NoResult =>
       /\ kUrl # [thrown |-> TRUE]
       /\ ( /\ NewURL(kChannel.url) = InvalidUrl
            /\ LowerToken(kChannel.catchup) \notin {"default", "append"} )
          => kUrl = kChannel.url

C15_Witness ==
    /\ kUrl = kChannel.url
    /\ NewURL(kChannel.url) = InvalidUrl
    /\ ~EmptyUrl(kChannel.url)
    /\ Window.available
    /\ ~OutsideWindow
    /\ kChannel.catchup = "shift"

\* ------------------------------------------------------------------
\* Properties of the parser
\* ------------------------------------------------------------------

\* The channel elements that have an id attribute, and those whose id is
\* not empty.
WithId == { k \in DOMAIN pDoc.channels : pDoc.channels[k].id.has }

WithNonEmptyId == { k \in WithId : pDoc.channels[k].id.value # <<>> }

\* The programme elements that have channel, start and stop, and those
\* where none of the three is empty.
Complete ==
    { k \in DOMAIN pDoc.programmes :
        LET el == pDoc.programmes[k] IN el.channel.has /\ el.start.has /\ el.stop.has }

CompleteNonEmpty ==
    { k \in Complete :
        LET el == pDoc.programmes[k]
        IN  el.channel.value # <<>> /\ el.start.value # EmptyStr /\ el.stop.value # EmptyStr }

\* C16 as stated: one EpgChannel per channel element with an id attribute
\* and one EpgProgram per programme element with channel, start and stop.
C16_OnePerElement ==
    pResult # NoResult =>
       /\ Len(pResult.channels) = Cardinality(WithId)
       /\ Len(pResult.programs) = Cardinality(Complete)

\* C16 amended: one EpgChannel per distinct non-empty id among the channel
\* elements, and one EpgProgram per programme element whose channel, start
\* and stop are all present and non-empty.
C16_OnePerDistinctId ==
    pResult # NoResult =>
       /\ { pResult.channels[k].id : k \in DOMAIN pResult.channels }
             = { pDoc.channels[k].id.value : k \in WithNonEmptyId }
       /\ Len(pResult.channels)
             = Cardinality({ pDoc.channels[k].id.value : k \in WithNonEmptyId })
       /\ Len(pResult.programs) = Cardinality(CompleteNonEmpty)

C16_Witness ==
    /\ pResult # NoResult
    /\ Cardinality(WithNonEmptyId) = 2
    /\ Len(pResult.channels) = 1
    /\ Cardinality(Complete) = 2
    /\ Len(pResult.programs) = 1

\* A list of programmes in non-decreasing order of start.
SortedByStart(list) ==
    \A i \in 1..Len(list), j \in 1..Len(list) : i < j => list[i].start <= list[j].start

EpgDataSorted(data) ==
    /\ SortedByStart(data.programs)
    /\ \A k \in DOMAIN data.channels : SortedByStart(data.channels[k].programs)

\* The EpgData values at hand: the one parseXmltvData returned and the one
\* loadParsedEpgCache returned after its save.
Returned == { d \in {pResult, pLoaded} : d # NoResult /\ d # Null }

\* C17: in every EpgData returned by parseXmltvData, and in every EpgData
\* loadParsedEpgCache returns after a save of it, each channel's programs
\* and the flat programs list are sorted non-decreasing by start.
C17_SortedByStart == \A d \in Returned : EpgDataSorted(d)

\* Two programmes of one declared channel that stand in the document in
\* descending order of start, parsed, saved and loaded.
C17_Witness ==
    /\ pLoaded \in Returned
    /\ Len(pLoaded.programs) = 2
    /\ pLoaded.programs[1].id[3] = 1
    /\ pLoaded.programs[1].start < pLoaded.programs[2].start
    /\ \E k \in DOMAIN pLoaded.channels :
          /\ Len(pLoaded.channels[k].programs) = 2
          /\ pLoaded.channels[k].programs[1].id[3] = 1

\* The programs in some channel's list of the parsed data.
InChannelLists ==
    UNION { { pResult.channels[k].programs[i] : i \in DOMAIN pResult.channels[k].programs } :
              k \in DOMAIN pResult.channels }

InFlatList == { pResult.programs[i] : i \in DOMAIN pResult.programs }

\* C18: in the EpgData parseXmltvData returns, the flat programs list
\* holds exactly the programs of the channels' lists, each program in the
\* list of the channel its channelId names.
C18_FlatListIsUnion ==
    pResult # NoResult =>
       /\ InFlatList = InChannelLists
       /\ \A k \in DOMAIN pResult.channels :
             \A i \in DOMAIN pResult.channels[k].programs :
                pResult.channels[k].programs[i].channelId = pResult.channels[k].id

\* C19: every EpgProgram parseXmltvData returns has stop > start.
C19_StopAfterStart ==
    pResult # NoResult =>
       \A i \in DOMAIN pResult.programs : pResult.programs[i].stop > pResult.programs[i].start

\* The programme elements the parser keeps, in document order; the
\* program with index n in its id was built from the element n + 1.
KeptElements ==
    LET Kept(el) == ~Falsy(el.channel, <<>>) /\ ~Falsy(el.start, EmptyStr)
                       /\ ~Falsy(el.stop, EmptyStr)
    IN  SelectSeq(pDoc.programmes, Kept)

\* The 14 digits read as a wall-clock time, less the signed offset of HH
\* hours and MM minutes, in seconds since the epoch.
WallClockLessOffset(timeStr) ==
    LET dt == timeStr.digits
        tz == timeStr.tz
    IN  DaysFromCivil(dt[1], dt[2], dt[3]) * 86400 + dt[4] * 3600 + dt[5] * 60 + dt[6]
           - tz[1] * (tz[2] * 3600 + tz[3] * 60)

HasOffset(timeStr) == timeStr.digits # <<>> /\ timeStr.tz # <<>>

\* C20: parseXmltvTime of 'YYYYMMDDHHmmss +-HHMM' is the UTC instant of the
\* 14 digits read as a wall-clock time less the signed offset; the start
\* '20231215120000 +0100' is 2023-12-15T11:00:00Z (1702638000 s).
C20_OffsetSubtracted ==
    pResult # NoResult =>
       \A i \in DOMAIN pResult.programs :
          LET p == pResult.programs[i]
              el == KeptElements[p.id[3] + 1]
          IN  /\ HasOffset(el.start.value) => p.start = WallClockLessOffset(el.start.value)
              /\ HasOffset(el.stop.value) => p.stop = WallClockLessOffset(el.stop.value)
              /\ el.start.value = T1200p0100 => p.start = 1702638000

\* '20231215120000 +0100' and '20231215120000 -0130' parsed: 11:00Z and
\* 13:30Z of 2023-12-15.
C20_Witness ==
    /\ pResult # NoResult
    /\ \E i \in DOMAIN pResult.programs :
          /\ KeptElements[pResult.programs[i].id[3] + 1].start.value = T1200p0100
          /\ KeptElements[pResult.programs[i].id[3] + 1].stop.value = T1200m0130
          /\ pResult.programs[i].start = 1702638000
          /\ pResult.programs[i].stop = 1702647000

\* ------------------------------------------------------------------
\* Properties of payload decoding
\* ------------------------------------------------------------------

\* C21: a throw of the gzip decoding is never the failure of the attempt:
\* the raw bytes are decoded and parsed, and the attempt fails only when
\* the parser rejected the text; and when the decompressed text is rejected
\* by the parser the attempt fails at once, the parser having been called
\* once for the payload.
C21_DecompressionNeverFails ==
    /\ (ungzip(dPayload).threw /\ dPc \in {"save", "done"})
          => dCalls = <<TextDecode(dPayload)>>
    /\ dOutcome = "error" => ~ParserAccepts(dCalls[Len(dCalls)])
    /\ (~ungzip(dPayload).threw /\ ~ParserAccepts(ungzip(dPayload).text) /\ Len(dCalls) >= 1)
          => /\ dCalls = <<ungzip(dPayload).text>>
             /\ dOutcome = "error"

\* ------------------------------------------------------------------
\* Properties of the fetch orchestration
\* ------------------------------------------------------------------

\* The source URL as it is, or under one proxy prefix.
AtMostOnePrefix(url) ==
    \/ url = fBase
    \/ \E j \in DOMAIN corsProxies : url = Proxied(j, fBase)

\* The candidate being attempted is a proxy address.
OnProxyCandidate ==
    /\ fPc = "fetching"
    /\ AlreadyProxied(generateEpgUrls(fBase)[fI])

\* C22: every request of a load asks for the source URL under at most one
\* proxy prefix; a candidate that is a proxy address is requested as it
\* is, and the answer to that one request ends the attempt on it (it is
\* not passed through the proxy list of fetchWithCorsProxy).
C22_NoDoubleWrapping ==
    /\ [](\A m \in DOMAIN fLog : AtMostOnePrefix(fLog[m].url))
    /\ [](OnProxyCandidate => /\ fJ = -1
                              /\ fLog[Len(fLog)].url = generateEpgUrls(fBase)[fI])
    /\ [][OnProxyCandidate => (fPc' = "done" \/ fI' = fI + 1)]_vars

\* The second candidate, a proxy address, was requested and failed, and
\* the load went on to the third.
C22_Witness ==
    /\ fPc = "fetching"
    /\ fI = 3
    /\ Len(fLog) >= 2
    /\ fLog[Len(fLog) - 1].url = Proxied(1, fBase)
    /\ fLog[Len(fLog) - 1].response = "status"
    /\ fLog[Len(fLog)].url = Proxied(2, fBase)

\* ------------------------------------------------------------------
\* Properties of the settings
\* ------------------------------------------------------------------

\* A confirmed Reset Everything has completed.
ResetCompleted == rReset \notin {"none", "cancelled"}

\* C23: after a confirmed Reset Everything the persisted settings hold
\* epgUrl = '', the stored playlist is removed, and loadParsedEpgCache
\* returns absent for every URL that was cached before the reset, the
\* URLs configured earlier than the current one included.
C23_ResetClearsEverything ==
    ResetCompleted =>
       /\ rStored = <<>>
       /\ ~rPlaylist
       /\ \A u \in rBefore : loadParsedEpgCache(rStore, u, TRUE) = Null

\* C28: when isTimeWithinCatchup(channel, t) is true, t lies inside
\* [startTime, endTime] of getCatchupInfo(channel) at the same now, so
\* generateCatchupUrl(channel, t) does not take its out-of-range fallback.
C28_ChecksAgree ==
    kWithin = "true" => (Window.available /\ ~OutsideWindow)

\* C30: parsing the same document at another current time yields the same
\* start and stop for every programme, also for timestamps without an
\* offset and for timestamps that do not match the 14-digit format.
C30_IndependentOfParseTime ==
    pResult # NoResult =>
       \A c \in ParseClocks : parseXmltvData(pDoc, c[1], c[2]).programs = pResult.programs

\* ------------------------------------------------------------------
\* Properties of useEpgState
\* ------------------------------------------------------------------

\* C24: after setError(m) the state is loadingState = 'error' with
\* error = m, and a following setLoadingState(s) with s other than 'error'
\* results in loadingState = s and error = null.
C24_ErrorClearedOnTransition ==
    /\ \A m \in Messages :
          sDone = <<Call("setError", m)>> => (sLoading = "error" /\ sError = Message(m))
    /\ \A st \in LoadingStates \ {"error"} :
          ( /\ sDone = <<Call("setLoadingState", st)>>
            /\ sPrev.loading = "error"
            /\ sPrev.error.has )
          => (sLoading = st /\ sError = NoError)

\* The step is a call of clearError.
ClearErrorCalled ==
    /\ Len(sBatch') = Len(sBatch) + 1
    /\ sBatch'[Len(sBatch')].op = "clearError"

\* C25: clearError() leaves error = null; it moves loadingState to 'idle'
\* when the loadingState it sees is 'error' and makes no change to
\* loadingState otherwise; so a render that applies one clearError shows
\* error = null, and 'idle' in place of 'error'.
C25_ClearError ==
    /\ [][ClearErrorCalled =>
             /\ sNextError' = NoError
             /\ sNextLoading' = IF sLoading = "error" THEN "idle" ELSE sNextLoading]_vars
    /\ [](sDone = <<Call("clearError", "")>> =>
             /\ sError = NoError
             /\ sLoading = IF sPrev.loading = "error" THEN "idle" ELSE sPrev.loading)

\* clearError was called on 'parsing' and, in a later render, on an error.
C25_Witness ==
    /\ sDone = <<Call("clearError", "")>>
    /\ sPrev = [loading |-> "error", error |-> Message("Failed to load EPG")]
    /\ sLoading = "idle"
    /\ sError = NoError
    /\ sBatch = <<Call("setLoadingState", "parsing"), Call("clearError", "")>>
    /\ sNextLoading = "parsing"

\* C27: after any sequence of setLoadingState, setError and clearError,
\* several of them from one render included, error is non-null only when
\* loadingState = 'error'.
C27_ErrorOnlyInErrorState ==
    sError.has => sLoading = "error"

\* ------------------------------------------------------------------
\* Properties of processInChunks
\* ------------------------------------------------------------------

\* C26: processItem is called once for every item, in index order; at
\* most chunkSize items are processed between two yields; the promise is
\* resolved only after the last item, and it is resolved, for every
\* length, 0 and the multiples of chunkSize included.
C26_ChunkedWalk ==
    /\ [](/\ Len(qCalls) <= qLength
          /\ \A k \in DOMAIN qCalls : qCalls[k] = k - 1
          /\ \A c \in DOMAIN qChunks : qChunks[c] <= qChunkSize
          /\ qPc = "resolved" => Len(qCalls) = qLength)
    /\ <>(qPc = "resolved")

\* A list of twice chunkSize items was walked in two chunks and resolved
\* without a third, empty run.
C26_Witness ==
    /\ qPc = "resolved"
    /\ qLength = 2 * qChunkSize
    /\ qChunkSize > 1
    /\ qChunks = <<qChunkSize, qChunkSize>>
    /\ Len(qCalls) = qLength

\* ------------------------------------------------------------------
\* Properties of the hook's cache writes
\* ------------------------------------------------------------------

\* The step creates the cache entry of url.
EntryCreated(url) ==
    /\ StoreGet(epgStore, CacheKey(url)) = Null
    /\ StoreGet(epgStore', CacheKey(url)) # Null

\* A forced load for url that started after load l has completed its
\* clearParsedEpgCache.
ClearedAfter(l, url) ==
    \E c \in 1..Len(loads) :
       /\ c > l
       /\ loads[c].url = url
       /\ loads[c].force
       /\ loads[c].pc # "clear"

\* C29: once clearParsedEpgCache(k) has completed, a cache write of a load
\* that was started before that clear never creates the entry of k again.
C29_NoWriteAfterClear ==
    [][\A w \in writes :
          (w \notin writes' /\ EntryCreated(w.url)) => ~ClearedAfter(w.load, w.url)]_vars

====
